---- MODULE Spec2Model ----
(***************************************************************************)
(* Signal-preemption controller of the green-corridor emergency router.    *)
(*                                                                         *)
(* The model follows TrafficLightController.preempt_traffic_lights         *)
(* (src/src/algorithms/adaptive_astar.py, lines 408-572) statement by      *)
(* statement.  The registries the method keeps on the class                *)
(* (_original_programs, _cooldowns, _fallback_counts, _gridlock_tls,       *)
(* _gridlock_db, _stuck_info) are the state; the simulator (TraCI) is the  *)
(* environment: every value the method reads from it is an input of the    *)
(* call, and every TraCI call may raise.                                   *)
(*                                                                         *)
(* Units: simulation time in seconds (the simulator runs with step length  *)
(* 1.0), speeds in tenths of a metre per second (stuck_speed 0.1 m/s is 1),*)
(* distances in metres.                                                    *)
(*                                                                         *)
(* The adaptive weights of the router                                      *)
(* (AdaptiveWeightedAStarRouter.get_adaptive_weights, lines 108-177) are   *)
(* modelled beside it, in thousandths.                                     *)
(***************************************************************************)
EXTENDS Integers, Sequences, FiniteSets, TLC

VARIABLES
    now,                \* traci.simulation.getTime()
    pc,                 \* position in the tick loop: "step" or "preempt"
    params,             \* keyword arguments of preempt_traffic_lights
    original_programs,  \* TrafficLightController._original_programs (dict)
    cooldowns,          \* TrafficLightController._cooldowns (dict)
    fallback_counts,    \* TrafficLightController._fallback_counts (dict)
    gridlock_tls,       \* TrafficLightController._gridlock_tls (set)
    gridlock_db,        \* TrafficLightController._gridlock_db (set)
    stuck_info,         \* TrafficLightController._stuck_info (dict by vehicle)
    tls_program,        \* simulator: current program of every signal
    tls_phase,          \* simulator: current phase index of every signal
    call,               \* observation of the last preempt_traffic_lights call
    session,            \* the simulation session running in the process
    scoped,             \* per signal, the registries had no other signal failed
    router,             \* the AdaptiveWeightedAStarRouter and its RouteContext
    planner,            \* the last create_route / find_next_edge call
    walk,               \* the greedy walk of the baseline routers
    trip,               \* the monitoring loop of run() and its arrival check
    search              \* the last find_next_edge call

vars == <<now, pc, params, original_programs, cooldowns, fallback_counts,
          gridlock_tls, gridlock_db, stuck_info, tls_program, tls_phase, call,
          session, scoped, router, planner, walk, trip,
          search>>

(***************************************************************************)
(* Bounds of the model.                                                    *)
(***************************************************************************)
\* Simulation time at which the tick loop of the model stops.
MaxTime == 9

\* Simulation time at which the tick loop stops in the stalled-vehicle runs.
MaxStuckTime == 100

\* Simulation time at which a session stops when sessions follow one another.
MaxSessionTime == 4

\* Number of sessions run one after the other in one process.
MaxSessions == 2

\* Number of weight samples after which the router is queried no more.
MaxSamples == 2

\* Largest max_iterations the greedy walk is called with.
MaxIterations == 3

\* Number of ticks after which the monitoring loop stops (3600 in the code).
MaxTicks == 3

(***************************************************************************)
(* Values.                                                                 *)
(***************************************************************************)
\* Python None where a signal id is expected (stuck_info["last_tls"]).
NoTLS == "None"

\* Python None where a program id is expected (_original_programs[tls_id]).
NoProgram == "None"

\* Python None where a timestamp is expected (stuck_info["stuck_start"]).
NoTime == -1

\* The vehicle the tick loop tracks.
Ambulance == "ambulance"

\* Signals of the network.
TLSIds == {"A", "B"}

\* Program every signal runs when the session starts.
InitialProgram == [t \in TLSIds |-> IF t = "A" THEN "0" ELSE "1"]

\* getAllProgramLogics(tls_id)[0].phases: one state string per phase, one
\* character per link.  Link 2 of "A" is never green, "B" has a single link.
ProgramLogics ==
    [t \in TLSIds |->
        IF t = "A"
        THEN << <<"G", "r", "r">>, <<"g", "G", "r">>, <<"r", "r", "r">> >>
        ELSE << <<"r">>, <<"G">> >>]

\* Keyword defaults of preempt_traffic_lights.
DefaultParams ==
    [detection_range |-> 500, stuck_timeout |-> 10, stuck_speed |-> 1,
     cooldown_period |-> 30, max_fallbacks |-> 3]

\* Argument sets a session is run with: the defaults, and short timings that
\* let a session go through several fallbacks.
ParamSets ==
    { [DefaultParams EXCEPT !.stuck_timeout = 1, !.cooldown_period = 2,
                            !.max_fallbacks = 2],
      [DefaultParams EXCEPT !.stuck_timeout = 1, !.cooldown_period = 2,
                            !.max_fallbacks = 1] }

\* Duration given to every forced phase (setPhaseDuration(tls_id, 10)).
PhaseDuration == 10

\* TraCI calls of the method that may raise (getProgram is an input of its
\* own: its failure is caught where it happens and the call goes on).
FailPoints ==
    {"getIDList", "getNextTLS", "getTime", "getPosition", "getSpeed",
     "setProgram", "getAllProgramLogics", "setPhase", "setPhaseDuration",
     "getRedYellowGreenState"}

\* The value an input takes when the call cannot read or use it.
Unread ==
    [veh |-> TRUE,          \* vehicle_id in traci.vehicle.getIDList()
     has_tls |-> TRUE,      \* getNextTLS returned a non-empty list
     tls |-> "A",           \* tls_list[0]: tls_id
     index |-> 0,           \*              tls_index
     dist |-> 500,          \*              tls_dist
     state |-> "r",         \*              tls_state
     speed |-> 0,           \* traci.vehicle.getSpeed
     prog_fail |-> FALSE,   \* traci.trafficlight.getProgram raises
     fail |-> "none",       \* the TraCI call that raises, if any
     round |-> 1]           \* the round of the loop of line 556 it raises in

\* Calls that end before the signal is looked at.
EarlyInputs ==
    {[Unread EXCEPT !.fail = f] : f \in {"getIDList", "getNextTLS"}}
    \cup {[Unread EXCEPT !.veh = FALSE], [Unread EXCEPT !.has_tls = FALSE]}

\* Calls in which a telemetry query raises.
TelemetryFailures ==
    {[Unread EXCEPT !.tls = t, !.prog_fail = p, !.fail = f] :
        t \in TLSIds, p \in BOOLEAN, f \in {"getTime", "getPosition", "getSpeed"}}

\* Calls in which the restoration command of a fallback raises.
RestoreFailures == {[Unread EXCEPT !.tls = t, !.fail = "setProgram"] : t \in TLSIds}

\* The reads and writes of the loop of lines 556-564.
LoopFailPoints == {"setPhase", "setPhaseDuration", "getRedYellowGreenState"}

\* Calls in which a read or write of the preemption step raises: in the
\* first round of the loop or, at the signal and link with two compatible
\* phases, in the second.
PreemptFailures ==
    {[Unread EXCEPT !.tls = t, !.prog_fail = p, !.speed = v, !.index = i,
                    !.fail = f] :
        t \in TLSIds, p \in BOOLEAN, v \in {0, 1}, i \in {0, 2},
        f \in {"getAllProgramLogics"} \cup LoopFailPoints}
    \cup {[Unread EXCEPT !.prog_fail = p, !.speed = v, !.fail = f, !.round = 2] :
        p \in BOOLEAN, v \in {0, 1}, f \in LoopFailPoints}

\* Calls in which nothing raises, except possibly getProgram: the vehicle is
\* slower than stuck_speed or not, the signal within detection_range or not,
\* and red, yellow or green for the vehicle.
PlainInputs ==
    {[Unread EXCEPT !.tls = t, !.prog_fail = p, !.speed = v, !.index = i,
                    !.dist = ds[1], !.state = ds[2]] :
        t \in TLSIds, p \in BOOLEAN, v \in {0, 1}, i \in {0, 2},
        ds \in {<<500, "r">>, <<500, "y">>, <<500, "G">>, <<501, "r">>}}

\* What one call reads from the simulator.  Inputs that differ only in a
\* value the call never reads give the same call: one of each is kept.
Inputs ==
    EarlyInputs \cup TelemetryFailures \cup RestoreFailures
        \cup PreemptFailures \cup PlainInputs

(***************************************************************************)
(* Dictionaries.                                                           *)
(***************************************************************************)
\* d[k] = v
DictSet(d, k, v) == [x \in DOMAIN d \cup {k} |-> IF x = k THEN v ELSE d[x]]

\* d.get(k, default)
DictGet(d, k, default) == IF k \in DOMAIN d THEN d[k] ELSE default

EmptyDict == [x \in {} |-> 0]

\* The registries and the signals, as one value the method transforms.
Registries ==
    [original_programs |-> original_programs, cooldowns |-> cooldowns,
     fallback_counts |-> fallback_counts, gridlock_tls |-> gridlock_tls,
     gridlock_db |-> gridlock_db, stuck_info |-> stuck_info,
     tls_program |-> tls_program, tls_phase |-> tls_phase]

\* One command sent to a signal; ok is FALSE when the command raised.
Cmd(op, tls, program, value, ok) ==
    [op |-> op, tls |-> tls, program |-> program, value |-> value, ok |-> ok]

\* The method returns ret after sending cmds, leaving the registries as s.
Return(s, ret, outcome, cmds) ==
    s @@ [ret |-> ret, outcome |-> outcome, cmds |-> cmds]

(***************************************************************************)
(* preempt_traffic_lights, top to bottom.                                  *)
(***************************************************************************)
\* Mutant: a signal whose program is recorded as None is read again.
CaptureOriginalProgram_Retry(s, in) ==
    IF in.tls \in DOMAIN s.original_programs
          /\ s.original_programs[in.tls] # NoProgram
    THEN s
    ELSE [s EXCEPT !.original_programs =
             DictSet(@, in.tls, IF in.prog_fail THEN NoProgram
                                ELSE s.tls_program[in.tls])]

\* Lines 446-456: the program of a signal is captured the first time the
\* signal is seen; None when getProgram raises.
CaptureOriginalProgram(s, in) ==
    IF in.tls \in DOMAIN s.original_programs
    THEN s
    ELSE [s EXCEPT !.original_programs =
             DictSet(@, in.tls, IF in.prog_fail THEN NoProgram
                                ELSE s.tls_program[in.tls])]

\* Mutant: the cooldown ends a second before cooldown_until.
CooldownActive_OneShort(s, tls, sim_time) ==
    tls \in DOMAIN s.cooldowns /\ sim_time < s.cooldowns[tls] - 1

\* Mutant: the comparison of line 464 the other way round.
CooldownActive_Flipped(s, tls, sim_time) ==
    tls \in DOMAIN s.cooldowns /\ sim_time > s.cooldowns[tls]

\* Line 464: tls_id in cooldowns and sim_time < cooldowns[tls_id]
CooldownActive(s, tls, sim_time) ==
    tls \in DOMAIN s.cooldowns /\ sim_time < s.cooldowns[tls]

\* Mutant: the registry of gridlocked signals is not consulted.
Gridlocked_Unchecked(s, tls) == FALSE

\* Line 480: tls_id in gridlock_tls
Gridlocked(s, tls) == tls \in s.gridlock_tls

\* Lines 486-494: _stuck_info.setdefault(vehicle_id, {...})
StuckInfoDefault(s, vehicle_id) ==
    IF vehicle_id \in DOMAIN s.stuck_info
    THEN s
    ELSE [s EXCEPT !.stuck_info =
             DictSet(@, vehicle_id, [last_tls |-> NoTLS, stuck_start |-> NoTime])]

\* Mutant: the fallback is triggered as soon as the timeout is reached.
StuckTimedOut_AtTimeout(sim_time, stuck_start) ==
    sim_time - stuck_start >= params.stuck_timeout

\* Line 506: sim_time - stuck_info["stuck_start"] > stuck_timeout
StuckTimedOut(sim_time, stuck_start) ==
    sim_time - stuck_start > params.stuck_timeout

\* Mutant: gridlock is declared one fallback early.
GridlockReached_Early(count) == count >= params.max_fallbacks - 1

\* Mutant: gridlock is declared one fallback late.
GridlockReached_Late(count) == count > params.max_fallbacks

\* Line 509: fallback_counts[tls_id] >= max_fallbacks
GridlockReached(count) == count >= params.max_fallbacks

\* stuck_info["stuck_start"] = value
SetStuckStart(s, vehicle_id, value) ==
    [s EXCEPT !.stuck_info[vehicle_id].stuck_start = value]

\* Lines 510-518: the intersection is declared gridlocked.
DeclareGridlock(s, in) ==
    Return(SetStuckStart([s EXCEPT !.gridlock_tls = @ \cup {in.tls},
                                   !.gridlock_db = @ \cup {in.tls}],
                         Ambulance, NoTime),
           FALSE, "gridlock_declared", <<>>)

\* Mutant: the program the signal runs now is restored, whatever was captured.
RestoreProgram_CurrentProgram(s, in) ==
    LET orig == s.tls_program[in.tls]
        until == now + params.cooldown_period
    IN  IF in.fail = "setProgram"
        THEN Return(SetStuckStart(s, Ambulance, NoTime), FALSE, "fallback",
                    <<Cmd("setProgram", in.tls, orig, 0, FALSE)>>)
        ELSE Return(SetStuckStart(
                        [s EXCEPT !.cooldowns = DictSet(@, in.tls, until)],
                        Ambulance, NoTime),
                    FALSE, "fallback",
                    <<Cmd("setProgram", in.tls, orig, 0, TRUE)>>)

\* Lines 519-536: the signal goes back to its captured program and a
\* cooldown is registered; the assignment of the cooldown follows setProgram
\* inside the try, so it is skipped when setProgram raises.
RestoreProgram(s, in) ==
    LET orig == s.original_programs[in.tls]
        until == now + params.cooldown_period
    IN  IF orig # NoProgram
        THEN IF in.fail = "setProgram"
             THEN Return(SetStuckStart(s, Ambulance, NoTime), FALSE, "fallback",
                         <<Cmd("setProgram", in.tls, orig, 0, FALSE)>>)
             ELSE Return(SetStuckStart(
                             [s EXCEPT !.tls_program[in.tls] = orig,
                                       !.cooldowns = DictSet(@, in.tls, until)],
                             Ambulance, NoTime),
                         FALSE, "fallback",
                         <<Cmd("setProgram", in.tls, orig, 0, TRUE)>>)
        ELSE Return(SetStuckStart(
                        [s EXCEPT !.cooldowns = DictSet(@, in.tls, until)],
                        Ambulance, NoTime),
                    FALSE, "fallback", <<>>)

\* Mutant: the count is started again instead of incremented.
CountFallback_Restart(s, tls) ==
    [s EXCEPT !.fallback_counts = DictSet(@, tls, 1)]

\* Line 508: fallback_counts[tls_id] = fallback_counts.get(tls_id, 0) + 1
CountFallback(s, tls) ==
    [s EXCEPT !.fallback_counts = DictSet(@, tls, DictGet(@, tls, 0) + 1)]

\* Mutant: the test of line 509 is missing, every fallback restores.
Fallback_AlwaysRestore(s, in) == RestoreProgram(CountFallback(s, in.tls), in)

\* Lines 507-536: a fallback.
Fallback(s, in) ==
    LET s1 == CountFallback(s, in.tls)
    IN  IF GridlockReached(s1.fallback_counts[in.tls])
        THEN DeclareGridlock(s1, in)
        ELSE RestoreProgram(s1, in)

\* The method goes on to the preemption step with the registries as s.
Continue(s) == Return(s, FALSE, "continue", <<>>)

\* Lines 501-541: stuck detection.
DetectStuck(s, in) ==
    LET info == s.stuck_info[Ambulance]
    IN  IF info.last_tls = in.tls
        THEN IF in.speed < params.stuck_speed
             THEN IF info.stuck_start = NoTime
                  THEN Continue(SetStuckStart(s, Ambulance, now))
                  ELSE IF StuckTimedOut(now, info.stuck_start)
                       THEN Fallback(s, in)
                       ELSE Continue(s)
             ELSE Continue(SetStuckStart(s, Ambulance, NoTime))
        ELSE Continue([s EXCEPT !.stuck_info[Ambulance] =
                          [last_tls |-> in.tls, stuck_start |-> NoTime]])

\* Lines 546-553: indices (from 0) of the phases whose state is green at the
\* vehicle's link, in program order.
CompatiblePhases(tls, tls_index) ==
    LET phases == ProgramLogics[tls]
        green(p) == /\ tls_index < Len(phases[p + 1])
                    /\ phases[p + 1][tls_index + 1] \in {"G", "g"}
    IN  SelectSeq([i \in 1..Len(phases) |-> i - 1], green)

\* Mutant: the loop of line 556 runs from the last compatible phase to the
\* first.
PhaseCommands_Descending(tls, compatible) ==
    [i \in 1..(2 * Len(compatible)) |->
        IF i % 2 = 1
        THEN Cmd("setPhase", tls, "",
                 compatible[Len(compatible) + 1 - (i + 1) \div 2], TRUE)
        ELSE Cmd("setPhaseDuration", tls, "", PhaseDuration, TRUE)]

\* The commands of the loop of lines 556-564 when nothing raises.
PhaseCommands(tls, compatible) ==
    [i \in 1..(2 * Len(compatible)) |->
        IF i % 2 = 1
        THEN Cmd("setPhase", tls, "", compatible[(i + 1) \div 2], TRUE)
        ELSE Cmd("setPhaseDuration", tls, "", PhaseDuration, TRUE)]

\* Lines 554-565: every compatible phase is forced in turn.  A command that
\* raises in round in.round of the loop ends the call in the handler of
\* line 570, after the commands of the rounds before it.
ForcePhases(s, in, compatible) ==
    LET k == in.round
        raises == in.fail \in LoopFailPoints /\ k <= Len(compatible)
        before == PhaseCommands(in.tls, SubSeq(compatible, 1, k - 1))
        reached == IF k = 1 THEN s
                   ELSE [s EXCEPT !.tls_phase[in.tls] = compatible[k - 1]]
        forced == [s EXCEPT !.tls_phase[in.tls] = compatible[k]]
        last == compatible[Len(compatible)]
    IN  IF ~raises
        THEN Return([s EXCEPT !.tls_phase[in.tls] = last], TRUE, "preempted",
                    PhaseCommands(in.tls, compatible))
        ELSE CASE in.fail = "setPhase" ->
                    Return(reached, FALSE, "exception",
                           before \o <<Cmd("setPhase", in.tls, "", compatible[k], FALSE)>>)
               [] in.fail = "setPhaseDuration" ->
                    Return(forced, FALSE, "exception",
                           before \o <<Cmd("setPhase", in.tls, "", compatible[k], TRUE),
                                       Cmd("setPhaseDuration", in.tls, "", PhaseDuration, FALSE)>>)
               [] in.fail = "getRedYellowGreenState" ->
                    Return(forced, FALSE, "exception",
                           before \o <<Cmd("setPhase", in.tls, "", compatible[k], TRUE),
                                       Cmd("setPhaseDuration", in.tls, "", PhaseDuration, TRUE)>>)

\* Mutant: the distance test of line 544 is missing.
Preempt_AnyDistance(s, in) ==
    IF in.state \in {"r", "y"}
    THEN IF in.fail = "getAllProgramLogics"
         THEN Return(s, FALSE, "exception", <<>>)
         ELSE LET compatible == CompatiblePhases(in.tls, in.index)
              IN  IF compatible # <<>>
                  THEN ForcePhases(s, in, compatible)
                  ELSE Return(s, FALSE, "no_compatible_phase", <<>>)
    ELSE Return(s, FALSE, "no_attempt", <<>>)

\* Mutant: without a compatible phase the first phase of the program is
\* forced.
Preempt_ForceFirst(s, in) ==
    IF in.dist <= params.detection_range /\ in.state \in {"r", "y"}
    THEN IF in.fail = "getAllProgramLogics"
         THEN Return(s, FALSE, "exception", <<>>)
         ELSE LET compatible == CompatiblePhases(in.tls, in.index)
              IN  IF compatible # <<>>
                  THEN ForcePhases(s, in, compatible)
                  ELSE ForcePhases(s, in, <<0>>)
    ELSE Return(s, FALSE, "no_attempt", <<>>)

\* Lines 543-569 and 572: the preemption step.
Preempt(s, in) ==
    IF in.dist <= params.detection_range /\ in.state \in {"r", "y"}
    THEN IF in.fail = "getAllProgramLogics"
         THEN Return(s, FALSE, "exception", <<>>)
         ELSE LET compatible == CompatiblePhases(in.tls, in.index)
              IN  IF compatible # <<>>
                  THEN ForcePhases(s, in, compatible)
                  ELSE Return(s, FALSE, "no_compatible_phase", <<>>)
    ELSE Return(s, FALSE, "no_attempt", <<>>)

\* Mutant: the return of line 536 is missing, a fallback goes on to preempt.
Returned_GridlockOnly(d) == d.outcome = "gridlock_declared"

\* Lines 518 and 536: stuck detection ended the call (return False).
Returned(d) == d.outcome # "continue"

\* Mutant: the handler of line 570 reports an action when a telemetry query
\* raises.
TrackAndPreempt_HandlerTrue(s, in) ==
    LET s1 == StuckInfoDefault(s, Ambulance)
    IN  IF in.fail \in {"getPosition", "getSpeed"}
        THEN Return(s1, TRUE, "exception", <<>>)
        ELSE LET d == DetectStuck(s1, in)
             IN  IF Returned(d)
                 THEN d
                 ELSE Preempt([f \in DOMAIN s1 |-> d[f]], in)

\* Lines 483-569: what the call does once the signal is neither in cooldown
\* nor gridlocked.
TrackAndPreempt(s, in) ==
    LET s1 == StuckInfoDefault(s, Ambulance)
    IN  IF in.fail \in {"getPosition", "getSpeed"}
        THEN Return(s1, FALSE, "exception", <<>>)
        ELSE LET d == DetectStuck(s1, in)
             IN  IF Returned(d)
                 THEN d
                 ELSE Preempt([f \in DOMAIN s1 |-> d[f]], in)

\* Mutant: the stuck tracker is moved to the observed signal before the
\* cooldown and gridlock tests.
preempt_traffic_lights_TrackFirst(s, in) ==
    IF in.fail = "getIDList" THEN Return(s, FALSE, "exception", <<>>)
    ELSE IF ~in.veh THEN Return(s, FALSE, "no_vehicle", <<>>)
    ELSE IF in.fail = "getNextTLS" THEN Return(s, FALSE, "exception", <<>>)
    ELSE IF ~in.has_tls THEN Return(s, FALSE, "no_tls", <<>>)
    ELSE LET s1 == CaptureOriginalProgram(s, in)
             info == DictGet(s1.stuck_info, Ambulance,
                             [last_tls |-> NoTLS, stuck_start |-> NoTime])
             s2 == IF info.last_tls = in.tls THEN s1
                   ELSE [s1 EXCEPT !.stuck_info =
                            DictSet(@, Ambulance, [last_tls |-> in.tls,
                                                   stuck_start |-> NoTime])]
         IN  IF in.fail = "getTime" THEN Return(s1, FALSE, "exception", <<>>)
             ELSE IF CooldownActive(s1, in.tls, now)
                  THEN Return(s2, FALSE, "cooldown", <<>>)
             ELSE IF Gridlocked(s1, in.tls)
                  THEN Return(s2, FALSE, "gridlocked", <<>>)
             ELSE TrackAndPreempt(s1, in)

\* Lines 437-572: the whole method.
preempt_traffic_lights(s, in) ==
    IF in.fail = "getIDList" THEN Return(s, FALSE, "exception", <<>>)
    ELSE IF ~in.veh THEN Return(s, FALSE, "no_vehicle", <<>>)
    ELSE IF in.fail = "getNextTLS" THEN Return(s, FALSE, "exception", <<>>)
    ELSE IF ~in.has_tls THEN Return(s, FALSE, "no_tls", <<>>)
    ELSE LET s1 == CaptureOriginalProgram(s, in)
         IN  IF in.fail = "getTime" THEN Return(s1, FALSE, "exception", <<>>)
             ELSE IF CooldownActive(s1, in.tls, now)
                  THEN Return(s1, FALSE, "cooldown", <<>>)
             ELSE IF Gridlocked(s1, in.tls)
                  THEN Return(s1, FALSE, "gridlocked", <<>>)
             ELSE TrackAndPreempt(s1, in)

(***************************************************************************)
(* The observation of a call, kept for the properties below.               *)
(***************************************************************************)
\* The command of the call raised the failure the input names.
Raised(r) ==
    \/ r.outcome = "exception"
    \/ r.outcome = "fallback" /\ r.cmds # <<>> /\ ~r.cmds[1].ok

\* The inputs of a call with every value the call did not use set to its
\* Unread value, so that equal calls are observed equally.
Observed(s, in, r) ==
    LET late == {"index", "dist", "state"}
        unused ==
            (IF Raised(r) THEN {} ELSE {"fail", "round"})
            \cup (IF in.tls \in DOMAIN s.original_programs THEN {"prog_fail"} ELSE {})
            \cup (IF r.outcome \in {"cooldown", "gridlocked"}
                  THEN late \cup {"speed"} ELSE {})
            \cup (IF r.outcome \in {"fallback", "gridlock_declared"} THEN late ELSE {})
            \cup (IF r.outcome = "no_attempt" THEN {"index"} ELSE {})
    IN  [f \in DOMAIN in |-> IF f \in unused THEN Unread[f] ELSE in[f]]

\* The call reached the signal: the vehicle exists and has a next signal.
SawSignal(c) ==
    /\ c.made /\ c.in.veh /\ c.in.has_tls
    /\ ~(c.outcome = "exception" /\ c.in.fail \in {"getIDList", "getNextTLS"})

\* No call has been made yet.
NoCall ==
    [made |-> FALSE, time |-> 0, in |-> Unread, ret |-> FALSE,
     outcome |-> "none", cmds |-> <<>>,
     pre |-> [original_programs |-> EmptyDict, cooldowns |-> EmptyDict,
              fallback_counts |-> EmptyDict, gridlock_tls |-> {},
              gridlock_db |-> {}, stuck_info |-> EmptyDict]]

\* The registries as the call found them.
Snapshot(s) ==
    [f \in {"original_programs", "cooldowns", "fallback_counts", "gridlock_tls",
             "gridlock_db", "stuck_info"} |-> s[f]]

(***************************************************************************)
(* Sessions.  The registries are attributes of the class                   *)
(* TrafficLightController, not of the controller a session constructs      *)
(* (lines 446-494 read and write TrafficLightController._cooldowns and the *)
(* like), so they outlive the session.  From the second session on, the    *)
(* model keeps beside them the registries the session would hold had it    *)
(* started with none, and what each call would then have returned.         *)
(***************************************************************************)
\* The registries before any call, with the signals of a fresh simulation.
FreshRegistries ==
    [original_programs |-> EmptyDict, cooldowns |-> EmptyDict,
     fallback_counts |-> EmptyDict, gridlock_tls |-> {}, gridlock_db |-> {},
     stuck_info |-> EmptyDict, tls_program |-> InitialProgram,
     tls_phase |-> [t \in TLSIds |-> 0]]

\* Lines 583-596, 1124: the first session of the process.
FirstSession ==
    [id |-> 1, own |-> FreshRegistries, ret |-> FALSE, cmds |-> <<>>]

\* The session after a call with inputs in: the call as it would run on
\* registries of the session's own.
SessionAfter(in) ==
    IF session.id = 1 THEN session
    ELSE LET r == preempt_traffic_lights(session.own, in)
         IN  [id |-> session.id,
              own |-> [f \in DOMAIN FreshRegistries |-> r[f]],
              ret |-> r.ret, cmds |-> r.cmds]

(***************************************************************************)
(* Failure state per signal.  For a signal t, scoped.world[t] is what the  *)
(* registries would be had the calls so far recorded no cooldown, fallback *)
(* count or gridlock mark for any signal but t; scoped.ret[t] and          *)
(* scoped.cmds[t] are what the last call would then have returned and      *)
(* sent.  It is kept only in the runs that start with scoped.on.           *)
(***************************************************************************)
\* The registries s with the failure state of signal tls taken out.
Unfailed(s, tls) ==
    [s EXCEPT !.cooldowns = [x \in DOMAIN @ \ {tls} |-> @[x]],
              !.fallback_counts = [x \in DOMAIN @ \ {tls} |-> @[x]],
              !.gridlock_tls = @ \ {tls},
              !.gridlock_db = @ \ {tls}]

\* Before any call.
Scoped(on) ==
    [on |-> on, world |-> [t \in TLSIds |-> FreshRegistries],
     ret |-> [t \in TLSIds |-> FALSE], cmds |-> [t \in TLSIds |-> <<>>]]

\* After a call with inputs in: the call as it runs in each of the worlds.
ScopedAfter(in) ==
    IF ~scoped.on THEN scoped
    ELSE LET r == [t \in TLSIds |-> preempt_traffic_lights(scoped.world[t], in)]
             regs(t) == [f \in DOMAIN FreshRegistries |-> r[t][f]]
         IN  [on |-> TRUE,
              world |-> [t \in TLSIds |->
                           IF in.tls = t THEN regs(t) ELSE Unfailed(regs(t), in.tls)],
              ret |-> [t \in TLSIds |-> r[t].ret],
              cmds |-> [t \in TLSIds |-> r[t].cmds]]

(***************************************************************************)
(* The adaptive weights of the router                                      *)
(* (AdaptiveWeightedAStarRouter.get_adaptive_weights, lines 108-177).      *)
(* Weights and shifts are in thousandths (0.95 is 950), distances in       *)
(* metres; the distances of the model are such that every quotient below   *)
(* is exact.                                                               *)
(***************************************************************************)
\* 1.0
One == 1000

\* Line 100: the tolerance of the constructor, 0.001.
SumTolerance == 1

\* Line 157: the cap of the time weight, 0.95.
TimeWeightCap == 950

\* Line 136: the progress shift at the destination, 0.20.
MaxProgressShift == 200

Abs(x) == IF x < 0 THEN -x ELSE x

Min(x, y) == IF x < y THEN x ELSE y

\* Lines 100-101: the constructor raises ValueError unless the base weights
\* sum to 1.0 within the tolerance.
Accepted(base_distance_weight, base_time_weight) ==
    ~(Abs(base_distance_weight + base_time_weight - One) > SumTolerance)

\* Pairs of base weights a caller may pass: the defaults (0.6, 0.4), a base
\* time weight above the cap, a sum off by 0.001, a sum off by more, and a
\* pair outside [0, 1] that sums to 1.0.
BasePairs ==
    {<<600, 400>>, <<0, 1000>>, <<601, 400>>, <<700, 400>>, <<1500, -500>>}

\* context.severity: the three levels and a string that is none of them.
Severities == {"CRITICAL", "HIGH", "MEDIUM", "LOW"}

\* context.total_distance: not computed yet, or the length of the route.
TotalDistances == {0, 100}

\* context.distance_traveled: at the start, half way, at the destination,
\* and the negative value the simulator answers for a vehicle that is not
\* on the road.
DistancesTraveled == {0, 50, 100, -300}

\* datetime.now().hour: the hours at the ends of the two rush periods, and
\* the hours next to them.
Hours == {6, 7, 9, 10, 15, 16, 19, 20}

\* Lines 48-71, 103-106: the router after construction, with a new
\* RouteContext.
NewRouter(base_distance_weight, base_time_weight) ==
    [base_distance_weight |-> base_distance_weight,
     base_time_weight |-> base_time_weight,
     severity |-> "HIGH",
     total_distance |-> 0,
     distance_traveled |-> 0,
     weight_history |-> <<>>,
     hour |-> 0,
     ret |-> <<>>]

\* Lines 133-134: distance_traveled / total_distance, in thousandths.
ProgressRatio(r) == (One * r.distance_traveled) \div r.total_distance

\* Mutant: progress shifts the weight towards distance.
ProgressShift_TowardsDistance(r) ==
    IF r.total_distance > 0
    THEN 0 - (MaxProgressShift * ProgressRatio(r)) \div One
    ELSE 0

\* Lines 131-136.
ProgressShift(r) ==
    IF r.total_distance > 0
    THEN (MaxProgressShift * ProgressRatio(r)) \div One
    ELSE 0

\* Lines 139-144: severity_factors.get(severity, 0.0).
SeverityShift(severity) ==
    CASE severity = "CRITICAL" -> 150
      [] severity = "HIGH" -> 80
      [] severity = "MEDIUM" -> 0
      [] OTHER -> 0

\* Line 148: a placeholder.
CongestionShift == 0

\* Mutant: the ends of the rush periods are left out.
RushHourShift_Exclusive(current_hour) ==
    IF (7 < current_hour /\ current_hour < 9)
          \/ (16 < current_hour /\ current_hour < 19)
    THEN 50 ELSE 0

\* Lines 151-154.
RushHourShift(current_hour) ==
    IF (7 <= current_hour /\ current_hour <= 9)
          \/ (16 <= current_hour /\ current_hour <= 19)
    THEN 50 ELSE 0

\* Lines 157-159.
TotalShift(r, current_hour) ==
    ProgressShift(r) + SeverityShift(r.severity) + CongestionShift
        + RushHourShift(current_hour)

\* Line 162.
TimeWeight(r, current_hour) ==
    Min(TimeWeightCap, r.base_time_weight + TotalShift(r, current_hour))

\* Mutant: the distance weight is the base distance weight less the shift.
DistanceWeight_Shifted(r, current_hour) ==
    r.base_distance_weight - TotalShift(r, current_hour)

\* Line 163.
DistanceWeight(r, current_hour) == One - TimeWeight(r, current_hour)

\* Lines 166-174: the sample appended to context.weight_history.
WeightSample(r, current_edge_id, current_hour) ==
    [edge |-> current_edge_id,
     distance_weight |-> DistanceWeight(r, current_hour),
     time_weight |-> TimeWeight(r, current_hour),
     progress |-> IF r.total_distance > 0 THEN ProgressRatio(r) ELSE 0,
     congestion_shift |-> CongestionShift]

\* Mutant: the history is a cache, a call after the first returns the
\* weights of the sample before it.
get_adaptive_weights_Cached(r, current_edge_id, current_hour) ==
    [r EXCEPT !.weight_history =
                  Append(@, WeightSample(r, current_edge_id, current_hour)),
              !.hour = current_hour,
              !.ret = IF r.weight_history = <<>>
                      THEN <<DistanceWeight(r, current_hour),
                             TimeWeight(r, current_hour)>>
                      ELSE <<r.weight_history[Len(r.weight_history)].distance_weight,
                             r.weight_history[Len(r.weight_history)].time_weight>>]

\* Lines 108-177: the router after the call; ret is the tuple returned and
\* hour the hour the call read from the clock.
get_adaptive_weights(r, current_edge_id, current_hour) ==
    [r EXCEPT !.weight_history =
                  Append(@, WeightSample(r, current_edge_id, current_hour)),
              !.hour = current_hour,
              !.ret = <<DistanceWeight(r, current_hour),
                        TimeWeight(r, current_hour)>>]

(***************************************************************************)
(* create_route: the effort annotation pass over the network and the       *)
(* route of the external engine.  Lengths in metres, speeds in m/s,        *)
(* weights and efforts in thousandths.                                     *)
(***************************************************************************)
\* self.net.getEdges(): three road edges and one internal junction edge.
NetEdges == {"e1", "e2", "e3", ":j"}

EdgeLength == [e \in NetEdges |->
                 CASE e = "e1" -> 100 [] e = "e2" -> 200
                   [] e = "e3" -> 60  [] OTHER -> 10]

EdgeSpeed == [e \in NetEdges |->
                CASE e = "e1" -> 10 [] e = "e2" -> 0
                  [] e = "e3" -> 20 [] OTHER -> 5]

\* Line 354: edge_id.startswith(":").
Internal(edge_id) == edge_id \in {":j"}

\* Line 394: the effort that makes the engine use its default cost again.
ResetEffort == -1

\* Mutant: the pass asks for the adaptive weights of the context.
PassTimeWeight_Adaptive(r) == TimeWeight(r, r.hour)

\* Lines 361-364: the weights of the pass, from the severity only.
PassTimeWeight(r) ==
    Min(TimeWeightCap, r.base_time_weight + SeverityShift(r.severity))

PassDistanceWeight(r) == One - PassTimeWeight(r)

\* Line 367: travel_time = edge_length / max(edge_speed, 1.0).
Max(a, b) == IF a >= b THEN a ELSE b

TravelTime(length, speed) == length \div Max(speed, 1)

\* Lines 370-372.
Effort(r, length, speed) ==
    PassDistanceWeight(r) * length
        + PassTimeWeight(r) * TravelTime(length, speed) * 10

\* Lines 350-380: the pass.  An edge whose reads or whose setEffort raise is
\* passed over (379-380) and keeps the effort the simulator had for it.
AnnotationPass(r, efforts, failing) ==
    [e \in DOMAIN efforts \cup {x \in NetEdges : ~Internal(x) /\ x \notin failing}
        |-> IF ~Internal(e) /\ e \notin failing
            THEN Effort(r, EdgeLength[e], EdgeSpeed[e])
            ELSE efforts[e]]

\* Lines 390-397: the efforts are reset; a failing setEffort is passed over.
ResetPass(efforts, failing) ==
    [e \in DOMAIN efforts \cup {x \in NetEdges : ~Internal(x) /\ x \notin failing}
        |-> IF ~Internal(e) /\ e \notin failing THEN ResetEffort
            ELSE efforts[e]]

\* Line 387: not route or len(route) <= 1.
Unusable(route) == Len(route) <= 1

\* Line 399: list(route) if route else [start_edge, goal_edge].
RouteOrDirect(route, start_edge, goal_edge) ==
    IF route # <<>> THEN route ELSE <<start_edge, goal_edge>>

\* What the simulator answers to one create_route call.  fail names the
\* query that raises ("none": none does); first and second are the routes of
\* the two findRoute calls; failing the edges whose annotation raises.
PlanPairs == {<<"e1", "e2">>, <<"e1", "e1">>}

EngineRoutes(start_edge, goal_edge) ==
    {<<>>, <<start_edge>>, <<start_edge, goal_edge>>,
     <<start_edge, "e3", goal_edge>>}

PlanDistance == 100

FailingEdges == {{}, {"e2"}}

NoAnswer == [fail |-> "none", distance |-> PlanDistance, failing |-> {},
             first |-> <<>>, second |-> <<>>]

PlanInputs(start_edge, goal_edge) ==
    LET usable == {x \in EngineRoutes(start_edge, goal_edge) : ~Unusable(x)}
        unusable == {x \in EngineRoutes(start_edge, goal_edge) : Unusable(x)}
    IN  {[NoAnswer EXCEPT !.fail = x] : x \in {"getDistanceRoad", "getTime"}}
        \cup {[NoAnswer EXCEPT !.failing = f, !.fail = "findRoute"] :
                 f \in FailingEdges}
        \cup {[NoAnswer EXCEPT !.failing = f, !.first = a] :
                 f \in FailingEdges, a \in usable}
        \cup {[NoAnswer EXCEPT !.failing = f, !.first = a, !.second = b] :
                 f \in FailingEdges, a \in unusable,
                 b \in EngineRoutes(start_edge, goal_edge)}
        \cup {[NoAnswer EXCEPT !.first = a, !.fail = "findRoute2"] :
                 a \in unusable}

NoPlan == [called |-> FALSE, start_edge |-> "e1", goal_edge |-> "e1",
           in |-> NoAnswer, annotated |-> EmptyDict, efforts |-> EmptyDict,
           route |-> <<>>, raised |-> FALSE]

\* Lines 322-405.  The handler of line 401 catches whatever the body raises.
create_route(r, start_edge, goal_edge, in) ==
    LET base == [NoPlan EXCEPT !.called = TRUE, !.start_edge = start_edge,
                               !.goal_edge = goal_edge, !.in = in]
        direct == <<start_edge, goal_edge>>
        context == [r EXCEPT !.total_distance = in.distance]
        annotated == AnnotationPass(context, EmptyDict, in.failing)
        reset == ResetPass(annotated, in.failing)
    IN  IF in.fail = "getDistanceRoad"
        THEN [router |-> r, plan |-> [base EXCEPT !.route = direct]]
        ELSE IF in.fail = "getTime"
        THEN [router |-> context, plan |-> [base EXCEPT !.route = direct]]
        ELSE IF in.fail = "findRoute"
        THEN [router |-> context,
              plan |-> [base EXCEPT !.annotated = annotated,
                                    !.efforts = annotated, !.route = direct]]
        ELSE IF ~Unusable(in.first)
        THEN [router |-> context,
              plan |-> [base EXCEPT !.annotated = annotated,
                                    !.efforts = annotated,
                                    !.route = in.first]]
        ELSE IF in.fail = "findRoute2"
        THEN [router |-> context,
              plan |-> [base EXCEPT !.annotated = annotated,
                                    !.efforts = reset, !.route = direct]]
        ELSE [router |-> context,
              plan |-> [base EXCEPT !.annotated = annotated,
                                    !.efforts = reset,
                                    !.route = RouteOrDirect(in.second, start_edge,
                                                            goal_edge)]]

\* The variables of the signal controller and of its tick loop.
signals == <<now, pc, params, original_programs, cooldowns, fallback_counts,
             gridlock_tls, gridlock_db, stuck_info, tls_program, tls_phase,
             call, session, scoped>>

(***************************************************************************)
(* The greedy walk of the baseline routers, create_route_fixed_astar and   *)
(* create_route_dijkstra: one action per iteration of the while loop.      *)
(* Distances in metres, speeds in m/s, costs in thousandths.               *)
(***************************************************************************)
\* net.getEdge(e).getOutgoing().keys(), in the order of the dictionary; an
\* edge outside the domain is one net.getEdge raises for.
Networks ==
    {[a |-> <<"b">>, b |-> <<"g">>, g |-> <<>>],
     [a |-> <<"b">>, b |-> <<"a">>, g |-> <<>>],
     [a |-> <<"b", "g">>, b |-> <<"a", "g">>, g |-> <<"a">>],
     [a |-> <<"a", "b">>, b |-> <<"b">>, g |-> <<>>],
     [a |-> <<>>, b |-> <<"g">>, g |-> <<>>],
     [b |-> <<"g">>, g |-> <<"b">>]}

WalkPairs == {<<"a", "g">>, <<"a", "a">>, <<"b", "g">>}

Algorithms == {"fixed_astar", "dijkstra"}

\* The answers to the queries made for one candidate: getDistanceRoad raises
\* or returns distance (negative: unreachable); speed is the speed limit
\* used, the default 40.0 when net.getEdge(edge).getSpeed() raises.
DefaultSpeed == 40

CandidateAnswers ==
    {[raises |-> TRUE, distance |-> 0, speed |-> DefaultSpeed],
     [raises |-> FALSE, distance |-> -1, speed |-> DefaultSpeed]}
    \cup [raises : {FALSE}, distance : {40, 80}, speed : {0, 20, DefaultSpeed}]

\* standard_astar.py 55-56 and 102: DISTANCE_WEIGHT * distance +
\* TIME_WEIGHT * travel_time; dijkstra.py 85: the distance.
FixedDistanceWeight == 600

FixedTimeWeight == 400

Cost(algorithm, answer) ==
    IF algorithm = "dijkstra"
    THEN One * answer.distance
    ELSE FixedDistanceWeight * answer.distance
            + FixedTimeWeight * (answer.distance \div Max(answer.speed, 1))

\* standard_astar.py 82-108, dijkstra.py 76-91: the candidate of least cost,
\* the first one among equals; a candidate whose query raises or answers a
\* negative distance is passed over.  <<>> stands for None.
RECURSIVE BestEdge(_, _, _, _)
BestEdge(algorithm, edges_leaving, answers, best) ==
    IF edges_leaving = <<>> THEN best
    ELSE LET edge == Head(edges_leaving)
             answer == answers[edge]
             better == /\ ~answer.raises
                       /\ ~(answer.distance < 0)
                       /\ \/ best = <<>>
                          \/ Cost(algorithm, answer) < best[2]
         IN  BestEdge(algorithm, Tail(edges_leaving), answers,
                      IF better THEN <<edge, Cost(algorithm, answer)>>
                      ELSE best)

NoWalk == [started |-> FALSE, done |-> FALSE, algorithm |-> "dijkstra",
           net |-> [g |-> <<>>], start_edge |-> "g", goal_edge |-> "g",
           max_iterations |-> 0, route |-> <<>>, current_edge |-> "g",
           visited |-> {}, iterations |-> 0, bodies |-> 0]

\* Lines 58-61 (53-56): the locals before the loop.
StartedWalk(algorithm, net, start_edge, goal_edge, max_iterations) ==
    [NoWalk EXCEPT !.started = TRUE, !.algorithm = algorithm, !.net = net,
                   !.start_edge = start_edge, !.goal_edge = goal_edge,
                   !.max_iterations = max_iterations,
                   !.current_edge = start_edge]

\* Lines 119-120 (101-102): route.append(goal_edge); return route.
Finish(w) == [w EXCEPT !.route = Append(@, w.goal_edge), !.done = TRUE]

\* Mutant: the edge is appended before the cycle guard is consulted.
WalkIteration_AppendFirst(w, answers) ==
    IF w.current_edge = w.goal_edge \/ ~(w.iterations < w.max_iterations)
    THEN Finish(w)
    ELSE LET entered == [w EXCEPT !.bodies = @ + 1,
                                  !.route = Append(@, w.current_edge)]
             seen == [entered EXCEPT !.visited = @ \cup {w.current_edge}]
             best == BestEdge(w.algorithm, w.net[w.current_edge], answers, <<>>)
         IN  IF w.current_edge \in w.visited THEN Finish(entered)
             ELSE IF w.current_edge \notin DOMAIN w.net THEN Finish(seen)
             ELSE IF w.net[w.current_edge] = <<>> THEN Finish(seen)
             ELSE IF best = <<>> THEN Finish(seen)
             ELSE [seen EXCEPT !.current_edge = best[1],
                               !.iterations = @ + 1]

\* Mutant: only the start edge is appended inside the loop.
WalkIteration_AppendStartOnly(w, answers) ==
    IF w.current_edge = w.goal_edge \/ ~(w.iterations < w.max_iterations)
    THEN Finish(w)
    ELSE LET entered == [w EXCEPT !.bodies = @ + 1]
             seen == [entered EXCEPT !.visited = @ \cup {w.current_edge}]
             best == BestEdge(w.algorithm, w.net[w.current_edge], answers, <<>>)
         IN  IF w.current_edge \in w.visited THEN Finish(entered)
             ELSE IF w.current_edge \notin DOMAIN w.net THEN Finish(seen)
             ELSE IF w.net[w.current_edge] = <<>> THEN Finish(seen)
             ELSE IF best = <<>> THEN Finish(seen)
             ELSE [seen EXCEPT !.route = IF w.iterations = 0
                                         THEN Append(@, w.current_edge) ELSE @,
                               !.current_edge = best[1],
                               !.iterations = @ + 1]

\* Lines 63-117 (58-99): the loop test and one pass through the body; the
\* loop left, the goal is appended and the route returned.
WalkIteration(w, answers) ==
    IF w.current_edge = w.goal_edge \/ ~(w.iterations < w.max_iterations)
    THEN Finish(w)
    ELSE LET entered == [w EXCEPT !.bodies = @ + 1]
             seen == [entered EXCEPT !.visited = @ \cup {w.current_edge}]
             best == BestEdge(w.algorithm, w.net[w.current_edge], answers, <<>>)
         IN  IF w.current_edge \in w.visited THEN Finish(entered)
             ELSE IF w.current_edge \notin DOMAIN w.net THEN Finish(seen)
             ELSE IF w.net[w.current_edge] = <<>> THEN Finish(seen)
             ELSE IF best = <<>> THEN Finish(seen)
             ELSE [seen EXCEPT !.route = Append(@, w.current_edge),
                               !.current_edge = best[1],
                               !.iterations = @ + 1]

(***************************************************************************)
(* find_next_edge: the candidates of an edge are evaluated one after the   *)
(* other with f = g + h.  Costs in thousandths; float("inf") is the cost   *)
(* that is not finite.                                                     *)
(***************************************************************************)
Infinite == [finite |-> FALSE, value |-> 0]

Finite(v) == [finite |-> TRUE, value |-> v]

\* a + b of floats, one of which may be inf.
Plus(a, b) ==
    IF a.finite /\ b.finite THEN Finite(a.value + b.value) ELSE Infinite

\* a < b of floats, either of which may be inf.
Less(a, b) == a.finite /\ (~b.finite \/ a.value < b.value)

\* The answers of getDistanceRoad: it raises, or returns a distance that is
\* negative for a pair of edges without a connection.
DistanceAnswers ==
    {[raises |-> TRUE, distance |-> 0], [raises |-> FALSE, distance |-> -1]}
    \cup [raises : {FALSE}, distance : {40, 80}]

\* What the simulator and the network answer for one candidate: the distance
\* from the current edge (g), the distance to the goal (h), and the speed
\* limit used, the default when getSpeed raises.
EdgeAnswers == [g : DistanceAnswers, h : DistanceAnswers, speed : {0, DefaultSpeed}]

\* Lines 192-225.
calculate_cost(r, answer, speed, current_node, current_hour) ==
    IF answer.raises \/ answer.distance < 0
    THEN [router |-> r, cost |-> Infinite]
    ELSE LET q == get_adaptive_weights(r, current_node, current_hour)
             travel_time == answer.distance \div Max(speed, 1)
         IN  [router |-> [q EXCEPT !.distance_traveled = answer.distance],
              cost |-> Finite(q.ret[1] * answer.distance
                                + q.ret[2] * travel_time)]

\* Lines 240-271.
heuristic_estimate(r, answer, speed, current_node, current_hour) ==
    IF answer.raises \/ answer.distance < 0
    THEN [router |-> r, cost |-> Infinite]
    ELSE LET q == get_adaptive_weights(r, current_node, current_hour)
             remaining_travel_time == answer.distance \div Max(speed, 1)
         IN  [router |-> q,
              cost |-> Finite(q.ret[1] * answer.distance
                                + q.ret[2] * remaining_travel_time)]

\* Lines 285-287.
evaluate_node(r, answer, node, current_hour) ==
    LET g == calculate_cost(r, answer.g, answer.speed, node, current_hour)
        h == heuristic_estimate(g.router, answer.h, answer.speed, node,
                                current_hour)
    IN  [router |-> h.router, cost |-> Plus(g.cost, h.cost)]

NoEdge == "None"

\* The loop of the mutant below: the candidate of greatest cost is kept.
RECURSIVE NextEdgeLoop_Greatest(_, _, _, _, _, _, _)
NextEdgeLoop_Greatest(r, edges_leaving, answers, current_hour, min_cost_edge, min_cost, costs) ==
    IF edges_leaving = <<>>
    THEN [router |-> r, next_edge |-> min_cost_edge, costs |-> costs]
    ELSE LET edge == Head(edges_leaving)
             e == evaluate_node(r, answers[edge], edge, current_hour)
             better == Less(min_cost, e.cost)
         IN  NextEdgeLoop_Greatest(e.router, Tail(edges_leaving), answers,
                          current_hour,
                          IF better THEN edge ELSE min_cost_edge,
                          IF better THEN e.cost ELSE min_cost,
                          DictSet(costs, edge, e.cost))

\* Lines 309-318: the loop over the candidates.
RECURSIVE NextEdgeLoop(_, _, _, _, _, _, _)
NextEdgeLoop(r, edges_leaving, answers, current_hour, min_cost_edge, min_cost, costs) ==
    IF edges_leaving = <<>>
    THEN [router |-> r, next_edge |-> min_cost_edge, costs |-> costs]
    ELSE LET edge == Head(edges_leaving)
             e == evaluate_node(r, answers[edge], edge, current_hour)
             better == Less(e.cost, min_cost)
         IN  NextEdgeLoop(e.router, Tail(edges_leaving), answers,
                          current_hour,
                          IF better THEN edge ELSE min_cost_edge,
                          IF better THEN e.cost ELSE min_cost,
                          DictSet(costs, edge, e.cost))

\* What one find_next_edge call meets: net.getEdge(current_edge) raises, or
\* the edge has the outgoing edges edges_leaving, answered for as answers.
OutgoingLists == {<<>>, <<"e2">>, <<"e2", "e3">>}

SearchHours == {7, 10}

SearchInputs ==
    {[raises |-> TRUE, edges_leaving |-> <<>>, answers |-> EmptyDict,
      hour |-> h] : h \in SearchHours}
    \cup UNION {[raises : {FALSE}, edges_leaving : {l},
                 answers : [{l[i] : i \in 1..Len(l)} -> EdgeAnswers],
                 hour : SearchHours] : l \in OutgoingLists}

\* Mutant: the candidate of greatest cost is returned.
find_next_edge_Greatest(r, in) ==
    IF in.raises \/ in.edges_leaving = <<>>
    THEN [router |-> r, next_edge |-> NoEdge, costs |-> EmptyDict]
    ELSE NextEdgeLoop_Greatest(r, in.edges_leaving, in.answers, in.hour,
                               NoEdge, Finite(0), EmptyDict)

\* Lines 289-320.  The handler of line 319 returns None.
find_next_edge(r, in) ==
    IF in.raises \/ in.edges_leaving = <<>>
    THEN [router |-> r, next_edge |-> NoEdge, costs |-> EmptyDict]
    ELSE NextEdgeLoop(r, in.edges_leaving, in.answers, in.hour, NoEdge,
                      Infinite, EmptyDict)

NoSearch == [called |-> FALSE, in |-> [raises |-> TRUE, edges_leaving |-> <<>>,
                                       answers |-> EmptyDict, hour |-> 0],
             next_edge |-> NoEdge, costs |-> EmptyDict, raised |-> FALSE]

(***************************************************************************)
(* The monitoring loop of run(): every tick steps the simulator, calls the *)
(* preemption, monitors the progress and checks the arrival.  Positions in *)
(* metres, times in seconds, speeds in hundredths of a metre per second.   *)
(***************************************************************************)
\* Line 766: the route of the vehicle; run() returns at line 768 unless it
\* has two edges or more.
VehicleRoute == <<"e1", "e3", "e2">>

GoalEdge == "e2"

LaneLength == 100

\* Line 903: speed < 0.1.
StuckSpeedLimit == 10

\* Line 904: current_time - start_time > 5.
StuckSeconds == 5

\* Line 902: lane_length - lane_pos < 1.0.
LaneEndGap == 1

\* The queries that raise in the model; getRoute stands for every query of
\* lines 886-892 made before the current edge is read again.
TripFailPoints == {"none", "getDistance", "getSpeed", "getRoute",
                   "getLanePosition", "getRoadID"}

Absent == [expected |-> TRUE, exists |-> FALSE, in_arrived_list |-> FALSE,
           has_tls |-> FALSE, route_index |-> 0, current_edge |-> "e1",
           lane_pos |-> 0, speed |-> 0, distance |-> 0, fail |-> "none"]

\* What the simulator answers in one tick.  No vehicle is expected any more
\* (the loop ends), or the vehicle is not in the simulation, possibly because
\* it has arrived and was removed, or it is and its telemetry is read;
\* fail names the query that raises.  The lane position is asked for on the
\* penultimate edge only; the route has one signal, ahead of the vehicle
\* while it is on the first edge.
TickInputs ==
    {[Absent EXCEPT !.expected = FALSE]}
    \cup {[Absent EXCEPT !.in_arrived_list = a] : a \in BOOLEAN}
    \cup UNION {
           [expected : {TRUE}, exists : {TRUE}, in_arrived_list : BOOLEAN,
            has_tls : {i = 1}, route_index : {i - 1},
            current_edge : {"e3", GoalEdge},
            lane_pos : IF i = Len(VehicleRoute) - 1
                       THEN {LaneLength - LaneEndGap, LaneLength}
                       ELSE {0},
            speed : {0, StuckSpeedLimit}, distance : {0, 50},
            fail : IF i = Len(VehicleRoute) - 1 THEN TripFailPoints
                   ELSE TripFailPoints \ {"getLanePosition"}]
           : i \in 1..Len(VehicleRoute)}

\* The observation of a tick: what held in the simulation and what the loop
\* did.
NoTick == [exists |-> FALSE, fail |-> "none", in_arrived_list |-> FALSE,
           at_last_edge |-> FALSE, on_goal_edge |-> FALSE,
           at_penultimate |-> FALSE, lane_read |-> FALSE,
           at_lane_end |-> FALSE, slow |-> FALSE, late |-> FALSE,
           stuck_at_penultimate |-> FALSE, detected_before |-> FALSE,
           fired |-> FALSE, preempt_called |-> FALSE,
           weights_evaluated |-> FALSE]

\* Lines 814-827: the locals of the loop.  speed and w_d are bound by the
\* first progress monitoring that gets that far.
NoTrip == [running |-> FALSE, crashed |-> FALSE, step |-> 0, step_length |-> 1,
           total_distance |-> 0, arrival_detected |-> FALSE, reported |-> 0,
           distance_covered |-> 0, speed_bound |-> FALSE, speed |-> 0,
           weights_bound |-> FALSE, due |-> FALSE, tick |-> NoTick]

\* Lines 856-881: progress monitoring; an exception ends it (880-881).
Monitor(t, r, in) ==
    IF in.fail = "getDistance" THEN [trip |-> t, router |-> r]
    ELSE LET covered == [t EXCEPT !.distance_covered = in.distance]
             read == [covered EXCEPT !.speed_bound = TRUE, !.speed = in.speed]
         IN  IF in.fail \in {"getRoadID", "getSpeed"}
             THEN [trip |-> covered, router |-> r]
             ELSE IF t.total_distance > 0
             THEN [trip |-> [read EXCEPT !.weights_bound = TRUE,
                                         !.tick.weights_evaluated = TRUE],
                   router |-> get_adaptive_weights(
                                  [r EXCEPT !.distance_traveled = in.distance],
                                  in.current_edge, r.hour)]
             ELSE [trip |-> read, router |-> r]

\* Line 832 and 814: the time since the vehicle was spawned.
Elapsed_Trip(t) == t.step * t.step_length

\* Mutant: five seconds since the vehicle was spawned are enough.
StuckAtPenultimate_AtFiveSeconds(t, in) ==
    /\ in.route_index = Len(VehicleRoute) - 2
    /\ in.fail # "getLanePosition"
    /\ LaneLength - in.lane_pos < LaneEndGap
    /\ t.speed_bound
    /\ t.speed < StuckSpeedLimit
    /\ Elapsed_Trip(t) >= StuckSeconds

\* Lines 893-908: the vehicle stands at the end of the penultimate edge.
\* An exception of the lane queries, or of reading a speed never bound,
\* leaves the rule false (907-908).
StuckAtPenultimate(t, in) ==
    /\ in.route_index = Len(VehicleRoute) - 2
    /\ in.fail # "getLanePosition"
    /\ LaneLength - in.lane_pos < LaneEndGap
    /\ t.speed_bound
    /\ t.speed < StuckSpeedLimit
    /\ Elapsed_Trip(t) > StuckSeconds

\* Lines 911-916.
ArrivalTriggered(t, in) ==
    \/ in.in_arrived_list
    \/ in.route_index = Len(VehicleRoute) - 1
    \/ in.current_edge = GoalEdge
    \/ StuckAtPenultimate(t, in)

\* Lines 917-962: arrival is reported and the loop left, break.
Report(t) ==
    [t EXCEPT !.arrival_detected = TRUE, !.tick.fired = ~t.arrival_detected,
              !.reported = @ + 1, !.running = FALSE]

\* Lines 884-993: the arrival check.  An exception of its queries, and the
\* NameError of the progress line (929-935) when speed or w_d was never
\* bound, goes to the handler of line 964, which reports the arrival only on
\* the goal edge and only when arrival_detected is not set.
CheckArrival(t, in) ==
    LET handler(u) ==
            IF in.fail = "getRoadID"
            THEN [u EXCEPT !.running = FALSE, !.crashed = TRUE]
            ELSE IF in.current_edge = GoalEdge /\ ~u.arrival_detected
            THEN Report(u)
            ELSE u
    IN  IF in.fail \in {"getRoute", "getRoadID"}
        THEN handler(t)
        ELSE IF ~t.arrival_detected /\ ArrivalTriggered(t, in)
        THEN IF /\ t.total_distance > 0 /\ t.distance_covered > 0
                /\ ~(t.speed_bound /\ t.weights_bound)
             THEN handler([t EXCEPT !.arrival_detected = TRUE,
                                    !.tick.fired = TRUE])
             ELSE Report(t)
        ELSE t

\* What held in the simulation in the tick, whatever the loop read of it.
Observe(t, in) ==
    [NoTick EXCEPT
        !.exists = in.exists, !.fail = in.fail,
        !.in_arrived_list = in.in_arrived_list,
        !.at_last_edge = in.exists /\ in.route_index = Len(VehicleRoute) - 1,
        !.on_goal_edge = in.exists /\ in.current_edge = GoalEdge,
        !.at_penultimate = in.exists /\ in.route_index = Len(VehicleRoute) - 2,
        !.lane_read = in.exists /\ in.fail # "getLanePosition",
        !.at_lane_end = in.exists /\ LaneLength - in.lane_pos < LaneEndGap,
        !.slow = in.exists /\ in.speed < StuckSpeedLimit,
        !.late = Elapsed_Trip(t) > StuckSeconds,
        !.stuck_at_penultimate =
            /\ in.exists
            /\ in.route_index = Len(VehicleRoute) - 2
            /\ LaneLength - in.lane_pos < LaneEndGap
            /\ in.speed < StuckSpeedLimit
            /\ Elapsed_Trip(t) > StuckSeconds,
        !.detected_before = t.arrival_detected,
        !.preempt_called = in.exists /\ in.has_tls]

\* Lines 829-993: one pass through the loop.  limit stands for the tick
\* budget of line 829.
Tick(t, r, in, limit) ==
    IF ~in.expected \/ ~(t.step < limit)
    THEN [trip |-> [t EXCEPT !.running = FALSE, !.tick = NoTick], router |-> r]
    ELSE LET stepped == [t EXCEPT !.step = @ + 1]
             seen == [stepped EXCEPT
                        !.tick = Observe(stepped, in),
                        !.due = @ \/ (in.exists /\ in.in_arrived_list)
                                  \/ Observe(stepped, in).at_last_edge
                                  \/ Observe(stepped, in).on_goal_edge
                                  \/ Observe(stepped, in).stuck_at_penultimate]
             m == Monitor(seen, r, in)
         IN  IF ~in.exists THEN [trip |-> seen, router |-> r]
             ELSE [trip |-> CheckArrival(m.trip, in), router |-> m.router]

(***************************************************************************)
(* The tick loop: one simulation step, then one call of the method.        *)
(***************************************************************************)
Init ==
    /\ now = 0
    /\ pc = "step"
    /\ params \in ParamSets
    /\ original_programs = EmptyDict
    /\ cooldowns = EmptyDict
    /\ fallback_counts = EmptyDict
    /\ gridlock_tls = {}
    /\ gridlock_db = {}
    /\ stuck_info = EmptyDict
    /\ tls_program = InitialProgram
    /\ tls_phase = [t \in TLSIds |-> 0]
    /\ call = NoCall
    /\ session = FirstSession
    /\ scoped = Scoped(FALSE)
    /\ router = NewRouter(600, 400)
    /\ planner = NoPlan
    /\ walk = NoWalk
    /\ trip = NoTrip
    /\ search = NoSearch

\* Lines 829-832: traci.simulationStep() advances the simulation by a second;
\* the call of the tick before is over.
Step(limit) ==
    /\ pc = "step"
    /\ now < limit
    /\ now' = now + 1
    /\ pc' = "preempt"
    /\ call' = NoCall
    /\ UNCHANGED <<params, original_programs, cooldowns, fallback_counts,
                   gridlock_tls, gridlock_db, stuck_info, tls_program,
                   tls_phase, session, scoped, router, planner, walk, trip,
                   search>>

\* Line 844: the method is called with what the simulator answers.
Call(in) ==
    /\ pc = "preempt"
    /\ \E r \in {preempt_traffic_lights(Registries, in)} :
        /\ pc' = "step"
        /\ original_programs' = r.original_programs
        /\ cooldowns' = r.cooldowns
        /\ fallback_counts' = r.fallback_counts
        /\ gridlock_tls' = r.gridlock_tls
        /\ gridlock_db' = r.gridlock_db
        /\ stuck_info' = r.stuck_info
        /\ tls_program' = r.tls_program
        /\ tls_phase' = r.tls_phase
        /\ call' = [made |-> TRUE, time |-> now,
                    in |-> Observed(Registries, in, r), ret |-> r.ret,
                    outcome |-> r.outcome, cmds |-> r.cmds,
                    pre |-> Snapshot(Registries)]
        /\ session' = SessionAfter(in)
        /\ scoped' = ScopedAfter(in)
        /\ UNCHANGED <<now, params, router, planner, walk, trip, search>>

SimulationStep == Step(MaxTime)

\* getProgram is called, and so can raise, only for a signal not seen before.
PreemptTrafficLights ==
    /\ pc = "preempt"
    /\ \E in \in Inputs :
        /\ in.prog_fail => in.tls \notin DOMAIN original_programs
        /\ Call(in)

Next == SimulationStep \/ PreemptTrafficLights

Spec == Init /\ [][Next]_vars

(***************************************************************************)
(* The stalled vehicle: the same loop when, on every tick, the vehicle is  *)
(* in the simulation, keeps the next signal it had, is slower than         *)
(* stuck_speed, and the telemetry queries answer.  Every command to the    *)
(* signal may still raise.  The loop runs on every tick (weak fairness).   *)
(***************************************************************************)
StalledInit ==
    /\ Init!1 /\ Init!2
    /\ params \in ParamSets \cup {DefaultParams}
    /\ Init!4 /\ Init!5 /\ Init!6 /\ Init!7 /\ Init!8 /\ Init!9
    /\ Init!10 /\ Init!11 /\ Init!12 /\ Init!13 /\ Init!14 /\ Init!15
    /\ Init!16 /\ Init!17 /\ Init!18 /\ Init!19

\* The answers of the simulator while the vehicle is stalled before a signal.
Stalled(in) ==
    /\ in.veh /\ in.has_tls
    /\ in.fail \notin {"getIDList", "getNextTLS", "getTime", "getPosition",
                       "getSpeed"}
    /\ in.speed < params.stuck_speed
    /\ Ambulance \in DOMAIN stuck_info
          => stuck_info[Ambulance].last_tls \in {NoTLS, in.tls}

StalledStep == Step(MaxStuckTime)

StalledPreempt ==
    /\ pc = "preempt"
    /\ \E in \in Inputs :
        /\ Stalled(in)
        /\ in.prog_fail => in.tls \notin DOMAIN original_programs
        /\ Call(in)

StalledNext == StalledStep \/ StalledPreempt

StalledSpec == StalledInit /\ [][StalledNext]_vars /\ WF_vars(StalledNext)

(***************************************************************************)
(* Sessions one after the other in one process: a session ends, another    *)
(* controller is constructed and a fresh simulation is started; the class  *)
(* attributes stay as the session before left them.  Nothing raises in     *)
(* these runs.                                                             *)
(***************************************************************************)
\* Calls of these runs: the vehicle is before a signal and every query
\* answers.
SessionInputs ==
    {[Unread EXCEPT !.tls = t, !.speed = v, !.dist = ds[1], !.state = ds[2]] :
        t \in TLSIds, v \in {0, 1}, ds \in {<<500, "r">>, <<501, "r">>}}

SessionStep == Step(MaxSessionTime)

SessionPreempt ==
    /\ pc = "preempt"
    /\ \E in \in SessionInputs : Call(in)

\* Lines 583-596 and 731: a new EmergencyVehicleSimulation, with a new
\* TrafficLightController, starts a simulation at time 0.
NewSession ==
    /\ pc = "step"
    /\ now >= 1
    /\ session.id < MaxSessions
    /\ now' = 0
    /\ tls_program' = InitialProgram
    /\ tls_phase' = [t \in TLSIds |-> 0]
    /\ call' = NoCall
    /\ session' = [id |-> session.id + 1, own |-> FreshRegistries,
                   ret |-> FALSE, cmds |-> <<>>]
    /\ UNCHANGED <<pc, params, original_programs, cooldowns, fallback_counts,
                   gridlock_tls, gridlock_db, stuck_info, scoped, router,
                   planner, walk, trip, search>>

SessionsNext == SessionStep \/ SessionPreempt \/ NewSession

SessionsSpec == Init /\ [][SessionsNext]_vars

(***************************************************************************)
(* The tick loop with the per-signal worlds kept beside the registries.    *)
(* The vehicle is before a signal on every tick and nothing raises.        *)
(***************************************************************************)
ScopedInit ==
    /\ Init!1 /\ Init!2 /\ Init!3 /\ Init!4 /\ Init!5 /\ Init!6 /\ Init!7
    /\ Init!8 /\ Init!9 /\ Init!10 /\ Init!11 /\ Init!12 /\ Init!13
    /\ scoped = Scoped(TRUE)
    /\ Init!15 /\ Init!16 /\ Init!17 /\ Init!18 /\ Init!19

ScopedStep == Step(MaxTime)

ScopedPreempt ==
    /\ pc = "preempt"
    /\ \E in \in SessionInputs : Call(in)

ScopedNext == ScopedStep \/ ScopedPreempt

ScopedSpec == ScopedInit /\ [][ScopedNext]_vars

(***************************************************************************)
(* The router: constructed with base weights the constructor accepts, its  *)
(* context written by the session, its weights queried per edge.           *)
(***************************************************************************)
controller == <<signals, planner, walk, trip, search>>

\* Lines 82-106: the constructor returns for the accepted pairs only.
WeightsInit ==
    /\ Init!1 /\ Init!2 /\ params = DefaultParams
    /\ Init!4 /\ Init!5 /\ Init!6 /\ Init!7 /\ Init!8 /\ Init!9
    /\ Init!10 /\ Init!11 /\ Init!12 /\ Init!13 /\ Init!14
    /\ Init!16 /\ Init!17 /\ Init!18 /\ Init!19
    /\ \E base \in BasePairs :
          /\ Accepted(base[1], base[2])
          /\ router = NewRouter(base[1], base[2])

\* Line 753: the session sets the severity before it asks for a route.
SetSeverity ==
    /\ router.weight_history = <<>>
    /\ \E severity \in Severities : router' = [router EXCEPT !.severity = severity]
    /\ UNCHANGED controller

\* Lines 342-344: create_route sets the length of the route.
SetTotalDistance ==
    /\ \E d \in TotalDistances : router' = [router EXCEPT !.total_distance = d]
    /\ UNCHANGED controller

\* Lines 220 and 864: the distance covered so far.
SetDistanceTraveled ==
    /\ \E d \in DistancesTraveled :
          router' = [router EXCEPT !.distance_traveled = d]
    /\ UNCHANGED controller

\* Lines 212, 260, 867: the weights are queried.
GetAdaptiveWeights ==
    /\ Len(router.weight_history) < MaxSamples
    /\ \E current_hour \in Hours :
          router' = get_adaptive_weights(router, "edge", current_hour)
    /\ UNCHANGED controller

WeightsNext ==
    SetSeverity \/ SetTotalDistance \/ SetDistanceTraveled \/ GetAdaptiveWeights

WeightsSpec == WeightsInit /\ [][WeightsNext]_vars

(***************************************************************************)
(* The route of a session: the router is constructed, its context written  *)
(* and its weights possibly queried, then create_route is called once.     *)
(***************************************************************************)
PlanSetSeverity == ~planner.called /\ SetSeverity

PlanSetDistanceTraveled == ~planner.called /\ SetDistanceTraveled

\* The router has been queried at most once when the route is asked for.
PlanGetAdaptiveWeights ==
    /\ ~planner.called
    /\ router.weight_history = <<>>
    /\ GetAdaptiveWeights

\* Line 766: route = self.router.create_route(start_edge, goal_edge).
CreateRoute ==
    /\ ~planner.called
    /\ \E p \in PlanPairs : \E in \in PlanInputs(p[1], p[2]) :
          \E c \in {create_route(router, p[1], p[2], in)} :
              /\ router' = c.router
              /\ planner' = c.plan
    /\ UNCHANGED <<signals, walk, trip, search>>

RouteNext ==
    \/ PlanSetSeverity
    \/ PlanSetDistanceTraveled
    \/ PlanGetAdaptiveWeights
    \/ CreateRoute

RouteSpec == WeightsInit /\ [][RouteNext]_vars

(***************************************************************************)
(* A baseline router builds its route: the walk is started on a network    *)
(* and runs, iteration after iteration, until it returns.                  *)
(***************************************************************************)
WalkInit ==
    /\ Init!1 /\ Init!2 /\ params = DefaultParams
    /\ Init!4 /\ Init!5 /\ Init!6 /\ Init!7 /\ Init!8 /\ Init!9
    /\ Init!10 /\ Init!11 /\ Init!12 /\ Init!13 /\ Init!14 /\ Init!15
    /\ Init!16 /\ Init!17 /\ Init!18 /\ Init!19

\* standard_astar.py 39-41, dijkstra.py 39-41: the call.
StartWalk ==
    /\ ~walk.started
    /\ \E algorithm \in Algorithms, net \in Networks, p \in WalkPairs,
          max_iterations \in 0..MaxIterations :
          walk' = StartedWalk(algorithm, net, p[1], p[2], max_iterations)
    /\ UNCHANGED <<signals, router, planner, trip, search>>

\* The candidates of the iteration: none when the loop or the body is left
\* before an edge is asked for.
Candidates(w) ==
    IF w.current_edge \in DOMAIN w.net
    THEN {w.net[w.current_edge][i] : i \in 1..Len(w.net[w.current_edge])}
    ELSE {}

WalkStep ==
    /\ walk.started /\ ~walk.done
    /\ \E answers \in [Candidates(walk) -> CandidateAnswers] :
          walk' = WalkIteration(walk, answers)
    /\ UNCHANGED <<signals, router, planner, trip, search>>

WalkNext == StartWalk \/ WalkStep

\* The walk is a sequential loop: an iteration that can be made is made.
WalkSpec == WalkInit /\ [][WalkNext]_vars /\ WF_vars(WalkNext)

(***************************************************************************)
(* The next edge: the router is constructed, its context written, then     *)
(* find_next_edge is called for the edge "e1".                             *)
(***************************************************************************)
SearchSetSeverity == ~search.called /\ SetSeverity

SearchSetTotalDistance == ~search.called /\ SetTotalDistance

SearchSetDistanceTraveled == ~search.called /\ SetDistanceTraveled

FindNextEdge ==
    /\ ~search.called
    /\ \E in \in SearchInputs : \E f \in {find_next_edge(router, in)} :
          /\ router' = f.router
          /\ search' = [NoSearch EXCEPT !.called = TRUE, !.in = in,
                                        !.next_edge = f.next_edge,
                                        !.costs = f.costs]
    /\ UNCHANGED <<signals, planner, walk, trip>>

SearchNext ==
    \/ SearchSetSeverity
    \/ SearchSetTotalDistance
    \/ SearchSetDistanceTraveled
    \/ FindNextEdge

SearchSpec == WeightsInit /\ [][SearchNext]_vars

(***************************************************************************)
(* A journey: the route is computed, the vehicle spawned and the loop run  *)
(* until the vehicle arrives, no vehicle is left or the budget is used up. *)
(***************************************************************************)
StepLengths == {1, 5}

TripInit ==
    /\ Init!1 /\ Init!2 /\ params = DefaultParams
    /\ Init!4 /\ Init!5 /\ Init!6 /\ Init!7 /\ Init!8 /\ Init!9
    /\ Init!10 /\ Init!11 /\ Init!12 /\ Init!13 /\ Init!14 /\ Init!15
    /\ Init!16 /\ Init!17 /\ Init!18 /\ Init!19

\* Lines 814-822: the locals are set and the history is cleared.
StartTrip ==
    /\ trip = NoTrip
    /\ \E total_distance \in TotalDistances, step_length \in StepLengths :
          /\ trip' = [NoTrip EXCEPT !.running = TRUE, !.due = FALSE,
                                    !.total_distance = total_distance,
                                    !.step_length = step_length]
          /\ router' = [router EXCEPT !.total_distance = total_distance,
                                      !.weight_history = <<>>]
    /\ UNCHANGED <<signals, planner, walk, search>>

\* The distance a vehicle has covered, getDistance, never decreases.
TripTick ==
    /\ trip.running
    /\ \E in \in TickInputs :
          /\ in.exists => in.distance >= trip.distance_covered
          /\ \E t \in {Tick(trip, router, in, MaxTicks)} :
                /\ trip' = t.trip
                /\ router' = t.router
    /\ UNCHANGED <<signals, planner, walk, search>>

TripNext == StartTrip \/ TripTick

TripSpec == TripInit /\ [][TripNext]_vars






(***************************************************************************)
(* Properties.  In a state where call.made holds the registries are those  *)
(* the call left, call.pre those it found, and now the time of the call.   *)
(***************************************************************************)
\* The signal the call looked at.
CallTLS == call.in.tls

\* fallback_count of a signal after and before the call.
Count(t) == DictGet(fallback_counts, t, 0)

PreCount(t) == DictGet(call.pre.fallback_counts, t, 0)

\* The stuck tracker of the vehicle after and before the call.
Tracker == DictGet(stuck_info, Ambulance, [last_tls |-> NoTLS, stuck_start |-> NoTime])

PreTracker ==
    DictGet(call.pre.stuck_info, Ambulance, [last_tls |-> NoTLS, stuck_start |-> NoTime])

\* The call triggered a fallback (a restoration or a gridlock declaration).
FallbackTriggered == SawSignal(call) /\ Count(CallTLS) > PreCount(CallTLS)

\* The call read the speed of the vehicle: it was not ended by a missing
\* vehicle or signal, a cooldown, a gridlock or a failing telemetry query.
SpeedRead ==
    /\ SawSignal(call)
    /\ call.outcome \notin {"cooldown", "gridlocked"}
    /\ ~(call.outcome = "exception"
          /\ call.in.fail \in {"getTime", "getPosition", "getSpeed"})

\* The commands of the call with one of the given names.
Issued(ops) == {i \in 1..Len(call.cmds) : call.cmds[i].op \in ops}

SignalCommands == {"setProgram", "setPhase", "setPhaseDuration"}

\* The signal was in cooldown when the call was made.
PreCooldown ==
    /\ CallTLS \in DOMAIN call.pre.cooldowns
    /\ now < call.pre.cooldowns[CallTLS]

\* The call registered a cooldown: cooldown_until of its signal was written.
CooldownRegistered ==
    /\ CallTLS \in DOMAIN cooldowns
    /\ cooldowns[CallTLS] = now + params.cooldown_period
    /\ DictGet(call.pre.cooldowns, CallTLS, NoTime) # cooldowns[CallTLS]

\* C1: gridlock is absorbing.  No step takes a signal out of the gridlock
\* registry, and every call whose next signal is in the registry returns
\* False and sends no command to any signal, whatever the time.
C1_GridlockAbsorbing ==
    [][/\ gridlock_tls \subseteq gridlock_tls'
       /\ (SawSignal(call') /\ call'.in.tls \in gridlock_tls)
             => (~call'.ret /\ call'.cmds = <<>>)]_vars

\* A call on a gridlocked signal made after the cooldown of that signal ran out.
C1_Witness ==
    /\ SawSignal(call)
    /\ CallTLS \in call.pre.gridlock_tls
    /\ CallTLS \in DOMAIN cooldowns /\ now >= cooldowns[CallTLS]
    /\ call.outcome = "gridlocked"

\* C2: a signal enters the gridlock registry in exactly the call whose
\* fallback raises its fallback_count to max_fallbacks: a fallback that leaves
\* the count below max_fallbacks does not gridlock, and no call without a
\* fallback changes the registry.
C2_GridlockedAtMaxFallbacks ==
    call.made =>
        IF FallbackTriggered
        THEN /\ Count(CallTLS) = PreCount(CallTLS) + 1
             /\ (CallTLS \in gridlock_tls) <=> (Count(CallTLS) = params.max_fallbacks)
             /\ gridlock_tls \ {CallTLS} = call.pre.gridlock_tls
        ELSE gridlock_tls = call.pre.gridlock_tls

\* The second fallback at a signal, with max_fallbacks = 2, gridlocks it.
C2_Witness ==
    /\ FallbackTriggered
    /\ params.max_fallbacks = 2
    /\ Count(CallTLS) = 2
    /\ CallTLS \in gridlock_tls \ call.pre.gridlock_tls

\* C3: every gridlocked signal has fallback_count >= max_fallbacks.
C3_GridlockImpliesCount ==
    \A t \in gridlock_tls : Count(t) >= params.max_fallbacks

\* Both signals are gridlocked.
C3_Witness == gridlock_tls = TLSIds

\* C4: a call made while the next signal is in cooldown (now < cooldown_until)
\* returns False and sends no command.
C4_CooldownSuppresses ==
    (SawSignal(call) /\ PreCooldown) => (~call.ret /\ call.cmds = <<>>)

\* A call inside the cooldown window a fallback opened.
C4_Witness ==
    /\ SawSignal(call) /\ PreCooldown
    /\ PreCount(CallTLS) >= 1
    /\ call.outcome = "cooldown"

\* C5: a call in which a fallback or a gridlock declaration is triggered
\* forces no phase (no setPhase, no setPhaseDuration) and returns False.
C5_FallbackSuppressesPreemption ==
    FallbackTriggered => (~call.ret /\ Issued({"setPhase", "setPhaseDuration"}) = {})

\* A fallback in a call whose signal is in range, red, and has a green phase
\* for the vehicle.
C5_Witness ==
    /\ FallbackTriggered
    /\ call.in.dist <= params.detection_range /\ call.in.state = "r"
    /\ CompatiblePhases(CallTLS, call.in.index) # <<>>
    /\ Issued({"setProgram"}) # {}

\* Seconds the stuck timer had run when the call was made.
Elapsed == now - PreTracker.stuck_start

\* The vehicle was seen below stuck_speed at the signal it was already stuck
\* at, the stuck timer having run for elapsed seconds.
StuckFor(elapsed) ==
    /\ SpeedRead
    /\ PreTracker.last_tls = CallTLS
    /\ PreTracker.stuck_start # NoTime
    /\ call.in.speed < params.stuck_speed
    /\ elapsed = Elapsed

\* C6 as claimed: stuck for exactly stuck_timeout seconds, the call triggers
\* one fallback and registers one cooldown.
C6_FallbackAtTimeout ==
    StuckFor(params.stuck_timeout)
        => (Count(CallTLS) = PreCount(CallTLS) + 1 /\ CooldownRegistered)

\* C6 as amended: stuck for exactly stuck_timeout seconds, the call triggers
\* no fallback and registers no cooldown; stuck for longer, it triggers
\* exactly one fallback, and registers a cooldown (one, now + cooldown_period)
\* unless the fallback gridlocks the signal or the restoration command raises.
C6_FallbackAfterTimeout ==
    /\ StuckFor(params.stuck_timeout)
          => (Count(CallTLS) = PreCount(CallTLS) /\ cooldowns = call.pre.cooldowns
              /\ Issued({"setProgram"}) = {})
    /\ (StuckFor(Elapsed) /\ Elapsed > params.stuck_timeout)
          => /\ Count(CallTLS) = PreCount(CallTLS) + 1
             /\ \A t \in TLSIds \ {CallTLS} : Count(t) = PreCount(t)
             /\ IF CallTLS \in gridlock_tls \/ Raised(call)
                THEN cooldowns = call.pre.cooldowns
                ELSE /\ CooldownRegistered
                     /\ \A t \in DOMAIN cooldowns \ {CallTLS} :
                           t \in DOMAIN call.pre.cooldowns
                           /\ cooldowns[t] = call.pre.cooldowns[t]

\* The first tick past the timeout: one fallback, one cooldown.
C6_Witness ==
    /\ StuckFor(params.stuck_timeout + 1)
    /\ Count(CallTLS) = PreCount(CallTLS) + 1
    /\ CooldownRegistered

\* C7: the first-fallback scenario.  With the default arguments, a vehicle
\* stuck for 11 s at a signal whose captured program is "0" and whose
\* fallback_count is 0: the call sends setProgram(X, "0"), sets
\* cooldown_until[X] = now + cooldown_period, leaves fallback_count[X] = 1 and
\* X not gridlocked, and clears the stuck timer.
C7_FirstFallbackScenario ==
    (/\ params = DefaultParams
     /\ StuckFor(11)
     /\ call.pre.original_programs[CallTLS] = "0"
     /\ PreCount(CallTLS) = 0)
        => /\ \E i \in Issued({"setProgram"}) :
                call.cmds[i].tls = CallTLS /\ call.cmds[i].program = "0"
           /\ CallTLS \in DOMAIN cooldowns
           /\ cooldowns[CallTLS] = now + params.cooldown_period
           /\ Count(CallTLS) = 1
           /\ CallTLS \notin gridlock_tls
           /\ Tracker.stuck_start = NoTime

\* C8: every fallback that does not gridlock the signal leaves
\* cooldown_until = now + cooldown_period for it.
C8_FallbackSetsCooldown ==
    (FallbackTriggered /\ CallTLS \notin gridlock_tls)
        => (CallTLS \in DOMAIN cooldowns
            /\ cooldowns[CallTLS] = now + params.cooldown_period)

\* C9: after a call that sees a next signal other than the tracker's
\* last_tls the stuck timer is unset and last_tls is the new signal; after a
\* call that reads a speed at or above stuck_speed the stuck timer is unset.
\* (Stated for the calls in which no simulator query raised.)
C9_TimerClearedOnChange ==
    (SawSignal(call) /\ call.outcome # "exception")
        => /\ CallTLS # PreTracker.last_tls
                => (Tracker.stuck_start = NoTime /\ Tracker.last_tls = CallTLS)
           /\ (SpeedRead /\ call.in.speed >= params.stuck_speed)
                => Tracker.stuck_start = NoTime

\* C10: with the vehicle stalled before one signal on every tick, that signal
\* is eventually gridlocked, and from then on no command is sent.
C10_GivesUp ==
    <>[](Tracker.last_tls \in gridlock_tls /\ call.cmds = <<>>)

\* With the default arguments the stalled vehicle's signal is gridlocked and
\* a later call is turned away.
C10_Witness ==
    /\ params = DefaultParams
    /\ SawSignal(call)
    /\ call.outcome = "gridlocked"
    /\ Tracker.last_tls = CallTLS

(***************************************************************************)
(* The preemption step.                                                    *)
(***************************************************************************)
\* The phase commands of the call.
PhaseOps == {"setPhase", "setPhaseDuration"}

\* C12: a call sends setPhase or setPhaseDuration only under the full
\* guard: its signal is not gridlocked, the cooldown of the signal is over
\* (now >= cooldown_until), the call triggered no fallback, the signal is
\* within detection_range and its state for the vehicle is 'r' or 'y'.
C12_PreemptionGuard ==
    Issued(PhaseOps) # {} =>
        /\ SawSignal(call)
        /\ CallTLS \notin call.pre.gridlock_tls /\ CallTLS \notin gridlock_tls
        /\ ~PreCooldown
        /\ ~FallbackTriggered
        /\ call.in.dist <= params.detection_range
        /\ call.in.state \in {"r", "y"}

\* Phases are forced at a signal at exactly detection_range, yellow, whose
\* cooldown has run out and which has fallen back before.
C12_Witness ==
    /\ Issued(PhaseOps) # {}
    /\ call.in.dist = params.detection_range /\ call.in.state = "y"
    /\ CallTLS \in DOMAIN call.pre.cooldowns
    /\ now >= call.pre.cooldowns[CallTLS]
    /\ PreCount(CallTLS) > 0

\* The call attempted preemption: it passed the cooldown, gridlock and
\* stuck checks, found the signal in range and red or yellow, and read the
\* program of the signal.
PreemptionAttempted ==
    /\ SpeedRead
    /\ ~FallbackTriggered
    /\ call.in.dist <= params.detection_range
    /\ call.in.state \in {"r", "y"}
    /\ ~(call.outcome = "exception" /\ call.in.fail = "getAllProgramLogics")

\* The phases that are green for the link of the vehicle at its signal.
CallCompatible == CompatiblePhases(CallTLS, call.in.index)

\* The phases the call forced onto the signal, in the order of the commands.
ForcedPhases ==
    LET forced == SelectSeq(call.cmds, LAMBDA c : c.op = "setPhase" /\ c.ok)
    IN  [i \in 1..Len(forced) |-> forced[i].value]

\* Every setPhase of the call is followed by setPhaseDuration(tls, 10).
DurationFollows ==
    \A i \in Issued({"setPhase"}) :
        call.cmds[i].ok =>
            /\ i < Len(call.cmds)
            /\ call.cmds[i + 1].op = "setPhaseDuration"
            /\ call.cmds[i + 1].value = PhaseDuration

C14_ForcedReturnsTrue ==
    ForcedPhases # <<>> => call.ret

\* C15: a call that attempts preemption at a link for which no phase of the
\* program is green, or whose index is outside every phase state, sends no
\* setPhase or setPhaseDuration, returns False and changes no cooldown,
\* fallback count or gridlock mark.
C15_NoCompatiblePhase ==
    (PreemptionAttempted /\ CallCompatible = <<>>) =>
        /\ Issued(PhaseOps) = {}
        /\ ~call.ret
        /\ cooldowns = call.pre.cooldowns
        /\ fallback_counts = call.pre.fallback_counts
        /\ gridlock_tls = call.pre.gridlock_tls
        /\ gridlock_db = call.pre.gridlock_db

\* Preemption was attempted at a link whose index is outside every phase
\* state of a signal that has a cooldown and a fallback count on record.
C15_Witness ==
    /\ PreemptionAttempted /\ CallCompatible = <<>>
    /\ \A p \in 1..Len(ProgramLogics[CallTLS]) :
          call.in.index >= Len(ProgramLogics[CallTLS][p])
    /\ CallTLS \in DOMAIN call.pre.cooldowns
    /\ PreCount(CallTLS) > 0

(***************************************************************************)
(* Failures of the simulator.                                              *)
(***************************************************************************)
\* getProgram raised in the call (it is called for a signal not seen before).
ProgramReadFailed == call.made /\ call.in.prog_fail

\* C16 as stated: every failure of a query, read or write inside the call is
\* caught and the call returns False.
C16_FailureReturnsFalse ==
    (call.made /\ (Raised(call) \/ ProgramReadFailed)) => ~call.ret

\* C16, amended: no failure leaves the call as an exception, the tick loop
\* goes on to its next step.  The call returns False when any query, read
\* or write other than getProgram raises; when getProgram raises, the
\* original program is recorded as None and the call goes on, and may force
\* phases and return True.
C16_FailuresCaught ==
    call.made =>
        /\ pc = "step"
        /\ Raised(call) => ~call.ret
        /\ ProgramReadFailed =>
              /\ CallTLS \in DOMAIN original_programs
              /\ original_programs[CallTLS] = NoProgram
              /\ call.ret => call.outcome = "preempted"

\* getProgram raised and, later in the same call, the state read of the
\* loop raised after a phase was forced.
C16_Witness ==
    /\ ProgramReadFailed
    /\ Raised(call) /\ call.in.fail = "getRedYellowGreenState"
    /\ ForcedPhases # <<>>
    /\ ~call.ret

(***************************************************************************)
(* The original program.                                                   *)
(***************************************************************************)
\* C18: the original program of a signal is captured once, by the first
\* call that observes the signal: the program the signal runs, or None when
\* the read raised.  No later step changes or removes the stored value.
C18_CapturedOnce ==
    [][/\ \A t \in DOMAIN original_programs :
             /\ t \in DOMAIN original_programs'
             /\ original_programs'[t] = original_programs[t]
       /\ SawSignal(call') => call'.in.tls \in DOMAIN original_programs'
       /\ \A t \in DOMAIN original_programs' \ DOMAIN original_programs :
             /\ SawSignal(call') /\ t = call'.in.tls
             /\ original_programs'[t] =
                   IF call'.in.prog_fail THEN NoProgram ELSE tls_program[t]]_vars

\* A signal whose program was recorded as None has since fallen back, and
\* phases are forced onto it again.
C18_Witness ==
    /\ SawSignal(call)
    /\ CallTLS \in DOMAIN call.pre.original_programs
    /\ original_programs[CallTLS] = NoProgram
    /\ PreCount(CallTLS) > 0
    /\ ForcedPhases # <<>>

(***************************************************************************)
(* Failure state is per signal.                                            *)
(***************************************************************************)
\* C17: a fallback, cooldown or gridlock at one signal leaves the original
\* program, cooldown, fallback count and gridlock mark of every other signal
\* as they were, and a call at a signal returns and sends what it would had
\* no other signal ever failed.
C17_FailureScoped ==
    SawSignal(call) =>
        /\ \A t \in TLSIds \ {CallTLS} :
              /\ DictGet(original_programs, t, "") = DictGet(call.pre.original_programs, t, "")
              /\ DictGet(cooldowns, t, NoTime) = DictGet(call.pre.cooldowns, t, NoTime)
              /\ Count(t) = PreCount(t)
              /\ t \in gridlock_tls <=> t \in call.pre.gridlock_tls
              /\ t \in gridlock_db <=> t \in call.pre.gridlock_db
        /\ scoped.on =>
              /\ call.ret = scoped.ret[CallTLS]
              /\ call.cmds = scoped.cmds[CallTLS]

(***************************************************************************)
(* Sessions of one process.                                                *)
(***************************************************************************)
\* C11: a session owns its registries: what an earlier session recorded
\* changes neither the return value nor the commands of a call of a later
\* session, which are those of the same call on registries of its own.
C11_SessionsIndependent ==
    (call.made /\ session.id > 1)
        => (call.ret = session.ret /\ call.cmds = session.cmds)

(***************************************************************************)
(* The adaptive weights.                                                   *)
(***************************************************************************)
\* get_adaptive_weights has returned.
WeightsReturned == router.ret # <<>>

\* The sample recorded by the last call.
LastSample == router.weight_history[Len(router.weight_history)]

\* C19: the weights returned sum to 1.0 within 0.001, the time weight is at
\* most 0.95, and the sample recorded by the call carries the two weights
\* returned.
C19_WeightsSumToOne ==
    WeightsReturned =>
        /\ Abs(router.ret[1] + router.ret[2] - One) <= SumTolerance
        /\ router.ret[2] <= TimeWeightCap
        /\ router.weight_history # <<>>
        /\ LastSample.distance_weight = router.ret[1]
        /\ LastSample.time_weight = router.ret[2]

\* The time weight was capped at 0.95 in the second query of a router
\* whose base time weight is above the cap.
C19_Witness ==
    /\ WeightsReturned
    /\ router.base_time_weight > TimeWeightCap
    /\ router.ret[2] = TimeWeightCap
    /\ Len(router.weight_history) > 1

\* Line 171: the progress ratio of a context, 0 without a route length.
Progress(r) == IF r.total_distance > 0 THEN ProgressRatio(r) ELSE 0

\* The call just made: a sample was appended.
Queried == Len(router'.weight_history) > Len(router.weight_history)

\* C21: with severity and hour fixed the time weight does not decrease when
\* the progress ratio grows, and with progress and hour fixed the time
\* weight of CRITICAL is at least that of HIGH, which is at least that of
\* MEDIUM.  Each call is compared with the same call on every other
\* progress and severity.
C21_TimeWeightMonotone ==
    [][Queried =>
        LET TimeWeightFor(severity) ==
                TimeWeight([router EXCEPT !.severity = severity], router'.hour)
        IN  /\ \A total \in TotalDistances, traveled \in DistancesTraveled :
                  LET other == [router EXCEPT !.total_distance = total,
                                              !.distance_traveled = traveled]
                  IN  /\ Progress(other) <= Progress(router)
                            => TimeWeight(other, router'.hour) <= router'.ret[2]
                      /\ Progress(other) >= Progress(router)
                            => TimeWeight(other, router'.hour) >= router'.ret[2]
            /\ TimeWeightFor("CRITICAL") >= TimeWeightFor("HIGH")
            /\ TimeWeightFor("HIGH") >= TimeWeightFor("MEDIUM")
            /\ router'.ret[2] = TimeWeightFor(router.severity)]_vars

\* The weights were returned half way along the route, for the severity
\* HIGH and below the cap: without progress and for MEDIUM the time weight
\* is strictly less, at the destination and for CRITICAL strictly more.
C21_Witness ==
    /\ WeightsReturned
    /\ router.severity = "HIGH"
    /\ router.total_distance > 0
    /\ Progress(router) = LastSample.progress
    /\ 0 < Progress(router) /\ Progress(router) < One
    /\ TimeWeight([router EXCEPT !.distance_traveled = 0], router.hour)
          < router.ret[2]
    /\ TimeWeight([router EXCEPT !.distance_traveled = router.total_distance],
                  router.hour) > router.ret[2]
    /\ TimeWeight([router EXCEPT !.severity = "MEDIUM"], router.hour)
          < router.ret[2]
    /\ TimeWeight([router EXCEPT !.severity = "CRITICAL"], router.hour)
          > router.ret[2]

\* The reference formula of the time weight, in thousandths: 0.20 times the
\* progress ratio (0 without a positive route length), 0.15 for CRITICAL,
\* 0.08 for HIGH, 0.05 in the hours 7..9 and 16..19, capped at 0.95.
ReferenceTimeWeight(r, hour) ==
    LET progress == IF r.total_distance <= 0 THEN 0
                    ELSE (200 * r.distance_traveled) \div r.total_distance
        severity == IF r.severity = "CRITICAL" THEN 150
                    ELSE IF r.severity = "HIGH" THEN 80 ELSE 0
        rush == IF hour \in {7, 8, 9, 16, 17, 18, 19} THEN 50 ELSE 0
        sum == r.base_time_weight + progress + severity + 0 + rush
    IN  IF sum > 950 THEN 950 ELSE sum

\* C22: every call returns the time weight of the reference formula and
\* distance_weight = 1 - time_weight.  With the default base weights,
\* CRITICAL at the destination in a rush hour gives (0.20, 0.80), and MEDIUM
\* without progress outside the rush hours gives (0.60, 0.40).
C22_ReferenceFormula ==
    [][Queried =>
        LET defaults == router.base_distance_weight = 600
                            /\ router.base_time_weight = 400
            rush == router'.hour \in {7, 8, 9, 16, 17, 18, 19}
        IN  /\ router'.ret[2] = ReferenceTimeWeight(router, router'.hour)
            /\ router'.ret[1] = 1000 - router'.ret[2]
            /\ (defaults /\ router.severity = "CRITICAL" /\ rush
                    /\ router.total_distance > 0
                    /\ router.distance_traveled = router.total_distance)
                  => router'.ret = <<200, 800>>
            /\ (defaults /\ router.severity = "MEDIUM" /\ ~rush
                    /\ Progress(router) = 0)
                  => router'.ret = <<600, 400>>]_vars

\* The first scenario at 19 h, the last hour of the evening rush.
C22_Witness ==
    /\ WeightsReturned
    /\ router.severity = "CRITICAL" /\ router.hour = 19
    /\ router.ret = <<200, 800>>
    /\ LastSample.progress = One

\* C23: a call appends exactly one sample to weight_history and changes
\* nothing else of the context or the router, and returns what it returns
\* on the same context with an empty history.
C23_HistoryOnlyLogged ==
    [][/\ router'.ret # router.ret => Queried
       /\ Queried =>
            /\ Len(router'.weight_history) = Len(router.weight_history) + 1
            /\ SubSeq(router'.weight_history, 1, Len(router.weight_history))
                  = router.weight_history
            /\ router'.severity = router.severity
            /\ router'.total_distance = router.total_distance
            /\ router'.distance_traveled = router.distance_traveled
            /\ router'.base_distance_weight = router.base_distance_weight
            /\ router'.base_time_weight = router.base_time_weight
            /\ router'.ret =
                  get_adaptive_weights([router EXCEPT !.weight_history = <<>>],
                                       "edge", router'.hour).ret]_vars

\* The second call returned other weights than the first recorded.
C23_Witness ==
    /\ WeightsReturned
    /\ Len(router.weight_history) = 2
    /\ router.weight_history[1].time_weight # router.ret[2]
    /\ LastSample.time_weight = router.ret[2]

\* C20: whatever the context and the accepted base weights, both weights
\* returned lie in [0, 1].
C20_WeightsInUnitInterval ==
    WeightsReturned =>
        /\ 0 <= router.ret[1] /\ router.ret[1] <= One
        /\ 0 <= router.ret[2] /\ router.ret[2] <= One

(***************************************************************************)
(* create_route.  planner holds the last call: what the simulator answered *)
(* (in), the efforts after the annotation pass (annotated), and the route  *)
(* returned.                                                               *)
(***************************************************************************)
Planned == ~planner.called /\ planner'.called

PassRan(plan) == plan.called /\ plan.in.fail \notin {"getDistanceRoad", "getTime"}

\* C24: create_route never raises and returns at least two edges: the
\* route of the engine when that has two or more edges, and the direct
\* sequence [start_edge, goal_edge] when the second attempt gives no usable
\* route either.  (Violated: a one-edge route of the second attempt is
\* returned as it is.)
C24_RouteOfTwoEdges ==
    planner.called =>
        /\ ~planner.raised
        /\ Len(planner.route) >= 2
        /\ (planner.in.fail = "none" /\ Len(planner.in.first) >= 2)
              => planner.route = planner.in.first
        /\ (/\ planner.in.fail \in {"none", "findRoute2"}
            /\ Len(planner.in.first) < 2
            /\ planner.in.fail = "findRoute2" \/ Len(planner.in.second) < 2)
              => planner.route = <<planner.start_edge, planner.goal_edge>>

\* The effort the pass is to give an edge, from the severity, the length
\* and the speed limit alone.
ReferenceEffort(r, e) ==
    LET severity_shift == CASE r.severity = "CRITICAL" -> 150
                            [] r.severity = "HIGH" -> 80
                            [] OTHER -> 0
        time_weight == Min(950, r.base_time_weight + severity_shift)
        distance_weight == 1000 - time_weight
        speed == IF EdgeSpeed[e] > 1 THEN EdgeSpeed[e] ELSE 1
    IN  distance_weight * EdgeLength[e]
            + time_weight * (EdgeLength[e] \div speed) * 10

\* C28 as stated: the pass gives every road edge its effort.  (Violated: an
\* edge whose annotation raises is passed over.)
C28_EveryRoadEdge ==
    PassRan(planner) =>
        \A e \in NetEdges : ~Internal(e) => e \in DOMAIN planner.annotated

\* C28: the pass gives every non-internal edge whose annotation does not
\* raise the effort distance_weight*length + time_weight*(length/max(speed,
\* 1))*10 with time_weight = min(0.95, base_time_weight + severity_shift),
\* and gives no effort to an internal edge nor to an edge whose annotation
\* raises; the efforts are the same for every distance_traveled and hour of
\* day, and weight_history is left as it was.
C28_EffortOfSeverity ==
    [][(Planned /\ PassRan(planner')) =>
        /\ \A e \in NetEdges :
              IF ~Internal(e) /\ e \notin planner'.in.failing
              THEN /\ e \in DOMAIN planner'.annotated
                   /\ planner'.annotated[e] = ReferenceEffort(router, e)
              ELSE e \notin DOMAIN planner'.annotated
        /\ \A traveled \in DistancesTraveled, hour \in Hours :
              create_route([router EXCEPT !.distance_traveled = traveled,
                                          !.hour = hour],
                           planner'.start_edge, planner'.goal_edge,
                           planner'.in).plan.annotated = planner'.annotated
        /\ router'.weight_history = router.weight_history]_vars

\* A CRITICAL session in a rush hour, the vehicle under way and the router
\* queried before: the pass annotated e1 and passed over e2, which raised.
C28_Witness ==
    /\ PassRan(planner)
    /\ planner.in.failing = {"e2"}
    /\ "e1" \in DOMAIN planner.annotated
    /\ planner.annotated["e1"] = ReferenceEffort(router, "e1")
    /\ router.severity = "CRITICAL"
    /\ router.hour = 7
    /\ router.distance_traveled = 50
    /\ router.weight_history # <<>>

(***************************************************************************)
(* The greedy walk.                                                        *)
(***************************************************************************)
Occurrences(route, edge) == Cardinality({i \in 1..Len(route) : route[i] = edge})

\* C25: the walk returns after at most max_iterations iterations of its
\* loop, on every network, cyclic ones included, and no edge identifier
\* occurs twice in the route it builds and returns.
C25_WalkTerminates ==
    /\ [](/\ walk.iterations <= walk.max_iterations
          /\ walk.bodies <= walk.max_iterations
          /\ \A i, j \in 1..Len(walk.route) :
                walk.route[i] = walk.route[j] => i = j)
    /\ (walk.started ~> walk.done)

\* A cyclic network walked round: the guard stopped the walk at the edge it
\* had visited, and every edge occurs once in the route.
C25_Witness ==
    /\ walk.done
    /\ walk.current_edge \in walk.visited
    /\ walk.current_edge # walk.goal_edge
    /\ walk.iterations = 2
    /\ walk.iterations < walk.max_iterations
    /\ Len(walk.route) = 3
    /\ Occurrences(walk.route, walk.current_edge) = 1

\* C26: the route returned begins with start_edge and ends with goal_edge,
\* so that it holds at least the two edges [start, goal].  (Violated: a
\* walk stopped in its first iteration returns [goal_edge] alone.)
C26_StartToGoal ==
    walk.done =>
        /\ walk.route[1] = walk.start_edge
        /\ walk.route[Len(walk.route)] = walk.goal_edge
        /\ walk.start_edge # walk.goal_edge => Len(walk.route) >= 2

(***************************************************************************)
(* find_next_edge.  search holds the last call: what it met (in), the cost *)
(* f it computed for every candidate (costs) and the edge it returned.     *)
(***************************************************************************)
Searched == ~search.called /\ search'.called

\* The distance_traveled of the context when candidate number k is
\* evaluated: that of the last candidate before it whose g was computed.
TraveledBefore(in, k, traveled) ==
    LET done == {j \in 1..(k - 1) :
                    LET g == in.answers[in.edges_leaving[j]].g
                    IN  ~g.raises /\ g.distance >= 0}
    IN  IF done = {} THEN traveled
        ELSE LET last == CHOOSE j \in done : \A i \in done : i <= j
             IN  in.answers[in.edges_leaving[last]].g.distance

\* distance_weight * distance + time_weight * time, the weights being those
\* of the reference formula for the context with the distance traveled.
ReferenceCost(r, hour, traveled, distance, speed) ==
    LET time_weight ==
            ReferenceTimeWeight([r EXCEPT !.distance_traveled = traveled], hour)
        time == distance \div (IF speed > 1 THEN speed ELSE 1)
    IN  (1000 - time_weight) * distance + time_weight * time

Ticked == trip.tick.exists /\ ~trip.tick.detected_before

C30_ArrivalTerminal ==
    trip.due => ~trip.running /\ trip.reported <= 1

(***************************************************************************)
(* The end of the tick loop.                                               *)
(***************************************************************************)
\* The loop of line 829 has been entered and left.
LoopLeft == trip # NoTrip /\ ~trip.running

\* C31: the tick loop runs at most the tick budget; it is left before the
\* budget only on the tick where arrival is detected and reported, and no
\* error raised inside a tick ends the session.  (Violated: the loop is also
\* left when the simulator expects no more vehicles, and an exception of the
\* handler of line 964 leaves run.)
C31_EndsOnArrivalOrBudget ==
    /\ trip.step <= MaxTicks
    /\ ~trip.crashed
    /\ LoopLeft /\ trip.step < MaxTicks => trip.reported > 0

(***************************************************************************)
(* Restoration.                                                            *)
(***************************************************************************)
\* The fallback of the call declared its signal gridlocked.
GridlockDeclared == FallbackTriggered /\ CallTLS \in gridlock_tls

\* C32: a fallback that does not gridlock its signal issues setProgram on
\* that signal iff the captured original program is not None, once and with
\* exactly the captured program id, and issues no restoration command when
\* it is None; the fallback that declares gridlock issues no restoration
\* command and registers no cooldown.
C32_RestorationRule ==
    FallbackTriggered =>
        IF GridlockDeclared
        THEN Issued({"setProgram"}) = {} /\ cooldowns = call.pre.cooldowns
        ELSE IF original_programs[CallTLS] # NoProgram
        THEN /\ Cardinality(Issued({"setProgram"})) = 1
             /\ \A i \in Issued({"setProgram"}) :
                   /\ call.cmds[i].tls = CallTLS
                   /\ call.cmds[i].program = original_programs[CallTLS]
                   /\ call.cmds[i].program = call.pre.original_programs[CallTLS]
        ELSE Issued({"setProgram"}) = {}

\* A fallback at a signal whose program could not be captured: a cooldown
\* is registered and no command is sent.
C32_Witness ==
    /\ FallbackTriggered
    /\ ~GridlockDeclared
    /\ original_programs[CallTLS] = NoProgram
    /\ CooldownRegistered
    /\ call.cmds = <<>>

\* The call issued a program restoration on signal t.
Restored(c, t) ==
    \E i \in 1..Len(c.cmds) : c.cmds[i].op = "setProgram" /\ c.cmds[i].tls = t

\* C33: fallback_count of a signal never decreases and never exceeds
\* max_fallbacks, and a program restoration is issued on a signal only in a
\* call that raises its fallback_count by one to a value below
\* max_fallbacks: at most max_fallbacks - 1 restorations for one signal,
\* whatever the ticks.
C33_FallbacksBounded ==
    [][\A t \in TLSIds :
          LET before == DictGet(fallback_counts, t, 0)
              after == DictGet(fallback_counts', t, 0)
          IN  /\ before <= after
              /\ after <= params'.max_fallbacks
              /\ params' = params
              /\ Restored(call', t) =>
                    /\ after = before + 1
                    /\ after <= params.max_fallbacks - 1]_vars

\* With max_fallbacks = 2, the second fallback at a signal that was restored
\* once: the count is max_fallbacks and no second restoration is issued.
C33_Witness ==
    /\ GridlockDeclared
    /\ params.max_fallbacks = 2
    /\ Count(CallTLS) = 2
    /\ original_programs[CallTLS] # NoProgram
    /\ tls_program[CallTLS] = original_programs[CallTLS]
    /\ CallTLS \in DOMAIN cooldowns
    /\ call.cmds = <<>>

(***************************************************************************)
(* Cooldown and the stuck timer.  cooldown_until of a signal is written    *)
(* only by a fallback, as the time of the fallback plus cooldown_period.   *)
(***************************************************************************)
\* C34: a fallback at a signal for which an earlier fallback registered a
\* cooldown at time t comes later than t + cooldown_period + stuck_timeout,
\* and a stuck timer running at that signal was started at or after the end
\* of the cooldown.
C34_FallbackAfterCooldown ==
    /\ (FallbackTriggered /\ CallTLS \in DOMAIN call.pre.cooldowns)
          => now > call.pre.cooldowns[CallTLS] + params.stuck_timeout
    /\ \A t \in DOMAIN cooldowns :
          (Tracker.last_tls = t /\ Tracker.stuck_start # NoTime)
              => Tracker.stuck_start >= cooldowns[t]

\* The earliest second fallback: the vehicle stayed at the signal, the timer
\* restarted on the tick the cooldown ended and ran for stuck_timeout + 1.
C34_Witness ==
    /\ FallbackTriggered
    /\ CallTLS \in DOMAIN call.pre.cooldowns
    /\ PreTracker.stuck_start = call.pre.cooldowns[CallTLS]
    /\ now = call.pre.cooldowns[CallTLS] + params.stuck_timeout + 1

\* The call returned at the cooldown test or at the gridlock test.
Suppressed == call.made /\ call.outcome \in {"cooldown", "gridlocked"}

\* C35: a call that returns because its signal is in cooldown or gridlocked
\* leaves the stuck tracker of the vehicle, every fallback count, every
\* cooldown_until and the gridlock set as it found them.
C35_SuppressedCallFrame ==
    Suppressed =>
        /\ stuck_info = call.pre.stuck_info
        /\ Tracker = PreTracker
        /\ fallback_counts = call.pre.fallback_counts
        /\ cooldowns = call.pre.cooldowns
        /\ gridlock_tls = call.pre.gridlock_tls
        /\ gridlock_db = call.pre.gridlock_db
        /\ ~call.ret /\ call.cmds = <<>>

\* A suppressed call at a signal other than the one the tracker holds, with
\* the stuck timer running: the tracker keeps the other signal and its timer.
C35_Witness ==
    /\ Suppressed
    /\ PreTracker.last_tls \notin {NoTLS, CallTLS}
    /\ PreTracker.stuck_start # NoTime
    /\ Tracker = PreTracker

(***************************************************************************)
(* The preemption count of the tick loop (lines 826-854): the loop asks    *)
(* for the next signal, calls the method, and counts the call when it      *)
(* returned True for a signal that is not in last_preempted_tls.           *)
(***************************************************************************)
\* Number of ticks the count is followed for.
MaxApproachTicks == 3

\* Lines 825-827 and what the last tick saw: exists is line 834, next_tls
\* the id of tls_list[0] (None for an empty list), ret the value the method
\* returned.
NoCount ==
    [running |-> TRUE, crashed |-> FALSE, step |-> 0, lights_preempted |-> 0,
     last_preempted_tls |-> {}, exists |-> FALSE, next_tls |-> NoTLS,
     ret |-> FALSE]

\* Mutant: every tick in which the method returned True is counted.
CountPreemption_EveryTick(t, tls_list, ret) ==
    LET counted == tls_list # <<>> /\ ret
        added == IF counted THEN t.last_preempted_tls \cup {tls_list[1]}
                 ELSE t.last_preempted_tls
    IN  [t EXCEPT !.lights_preempted = IF counted THEN @ + 1 ELSE @,
                  !.last_preempted_tls =
                      {x \in added : tls_list # <<>> /\ x = tls_list[1]}]

\* Lines 840-854; tls_list holds the ids of getNextTLS, ret what the method
\* returned (FALSE when it was not called).
CountPreemption(t, tls_list, ret) ==
    LET counted == tls_list # <<>> /\ ret /\ tls_list[1] \notin t.last_preempted_tls
        added == IF counted THEN t.last_preempted_tls \cup {tls_list[1]}
                 ELSE t.last_preempted_tls
    IN  [t EXCEPT !.lights_preempted = IF counted THEN @ + 1 ELSE @,
                  !.last_preempted_tls =
                      {x \in added : tls_list # <<>> /\ x = tls_list[1]}]

CountInit ==
    /\ Init!1 /\ Init!2 /\ Init!3
    /\ Init!4 /\ Init!5 /\ Init!6 /\ Init!7 /\ Init!8 /\ Init!9
    /\ Init!10 /\ Init!11 /\ Init!12 /\ Init!13 /\ Init!14 /\ Init!15
    /\ Init!16 /\ Init!17 /\ trip = NoCount /\ Init!19

\* Lines 830-836: a tick in which the vehicle is not in the simulation.
TickWithoutVehicle ==
    /\ trip.running /\ trip.step < MaxApproachTicks
    /\ now' = now + 1
    /\ call' = NoCall
    /\ trip' = [trip EXCEPT !.step = @ + 1, !.exists = FALSE,
                            !.next_tls = NoTLS, !.ret = FALSE]
    /\ UNCHANGED <<pc, params, original_programs, cooldowns, fallback_counts,
                   gridlock_tls, gridlock_db, stuck_info, tls_program,
                   tls_phase, session, scoped, router, planner, walk, search>>

\* Line 839: getNextTLS raises outside every try, run is left.
TickNextTLSRaises ==
    /\ trip.running /\ trip.step < MaxApproachTicks
    /\ now' = now + 1
    /\ call' = NoCall
    /\ trip' = [trip EXCEPT !.step = @ + 1, !.exists = TRUE, !.ret = FALSE,
                            !.running = FALSE, !.crashed = TRUE]
    /\ UNCHANGED <<pc, params, original_programs, cooldowns, fallback_counts,
                   gridlock_tls, gridlock_db, stuck_info, tls_program,
                   tls_phase, session, scoped, router, planner, walk, search>>

\* Lines 839-854 with an empty tls_list: the method is not called.
TickWithoutSignal ==
    /\ trip.running /\ trip.step < MaxApproachTicks
    /\ now' = now + 1
    /\ call' = NoCall
    /\ trip' = [CountPreemption(trip, <<>>, FALSE) EXCEPT
                    !.step = @ + 1, !.exists = TRUE, !.next_tls = NoTLS,
                    !.ret = FALSE]
    /\ UNCHANGED <<pc, params, original_programs, cooldowns, fallback_counts,
                   gridlock_tls, gridlock_db, stuck_info, tls_program,
                   tls_phase, session, scoped, router, planner, walk, search>>

\* Lines 839-854 with a next signal: the method is called on the registries
\* and its answer counted.  The method asks for the vehicle and the signal
\* again and may be refused.
TickWithSignal ==
    /\ trip.running /\ trip.step < MaxApproachTicks
    /\ \E in \in Inputs :
        /\ in.veh /\ in.has_tls
        /\ in.prog_fail => in.tls \notin DOMAIN original_programs
        /\ \E r \in {preempt_traffic_lights(Registries, in)} :
            /\ now' = now + 1
            /\ original_programs' = r.original_programs
            /\ cooldowns' = r.cooldowns
            /\ fallback_counts' = r.fallback_counts
            /\ gridlock_tls' = r.gridlock_tls
            /\ gridlock_db' = r.gridlock_db
            /\ stuck_info' = r.stuck_info
            /\ tls_program' = r.tls_program
            /\ tls_phase' = r.tls_phase
            /\ call' = [made |-> TRUE, time |-> now,
                        in |-> Observed(Registries, in, r), ret |-> r.ret,
                        outcome |-> r.outcome, cmds |-> r.cmds,
                        pre |-> Snapshot(Registries)]
            /\ trip' = [CountPreemption(trip, <<in.tls>>, r.ret) EXCEPT
                            !.step = @ + 1, !.exists = TRUE,
                            !.next_tls = in.tls, !.ret = r.ret]
    /\ UNCHANGED <<pc, params, session, scoped, router, planner, walk, search>>

CountNext ==
    TickWithoutVehicle \/ TickNextTLSRaises \/ TickWithoutSignal \/ TickWithSignal

CountSpec == CountInit /\ [][CountNext]_vars

\* The signals the vehicle has before it after the tick just made.
NextSignals(t) == IF t.exists /\ t.next_tls # NoTLS THEN {t.next_tls} ELSE {}

\* lights_preempted rises by at most 1 in a tick, and only in a tick in which
\* the method returned True for a signal not in last_preempted_tls; a signal
\* that stays the next signal while it is in the set is not counted again.
CountedOncePerApproach(t, u) ==
    /\ u.lights_preempted - t.lights_preempted \in {0, 1}
    /\ u.lights_preempted > t.lights_preempted
          => (u.ret /\ u.next_tls # NoTLS /\ u.next_tls \notin t.last_preempted_tls)
    /\ (u.ret /\ u.next_tls \in t.last_preempted_tls)
          => u.lights_preempted = t.lights_preempted

\* C36 as stated: the count is once per approach, and after every tick
\* last_preempted_tls holds at most the vehicle's current next signal.
\* (Violated: a tick in which the vehicle is not in the simulation leaves
\* the set as it was.)
C36_AtMostNextSignal ==
    [][trip'.step = trip.step + 1 /\ ~trip'.crashed
          => /\ CountedOncePerApproach(trip, trip')
             /\ trip'.last_preempted_tls \subseteq NextSignals(trip')]_vars

\* C36: the count is once per approach; after every tick in which the
\* vehicle is in the simulation last_preempted_tls holds at most the
\* vehicle's current next signal, and a tick in which it is not leaves the
\* count and the set as they were.
C36_CountsApproaches ==
    [][trip'.step = trip.step + 1 /\ ~trip'.crashed
          => /\ CountedOncePerApproach(trip, trip')
             /\ IF trip'.exists
                THEN trip'.last_preempted_tls \subseteq NextSignals(trip')
                ELSE /\ trip'.last_preempted_tls = trip.last_preempted_tls
                     /\ trip'.lights_preempted = trip.lights_preempted]_vars

\* The second successful preemption of one approach: the signal was counted
\* in an earlier tick, the method returns True again, the count stays 1.
C36_Witness ==
    /\ trip.ret
    /\ trip.next_tls \in trip.last_preempted_tls
    /\ trip.lights_preempted = 1
    /\ trip.step >= 3

(***************************************************************************)
(* The route of a walk that reached the goal.                              *)
(***************************************************************************)
\* The loop was left because current_edge is goal_edge.
ReachedGoal == walk.done /\ walk.current_edge = walk.goal_edge

\* edge is an outgoing neighbour of from in the network of the walk.
Outgoing(from, edge) ==
    /\ from \in DOMAIN walk.net
    /\ \E i \in 1..Len(walk.net[from]) : walk.net[from][i] = edge

\* C37: the route of a walk that stopped because it reached goal_edge is a
\* path of the network: it begins with start_edge, ends with goal_edge, and
\* every edge after the first is an outgoing neighbour of the edge before it.
C37_RouteIsPath ==
    ReachedGoal =>
        /\ Len(walk.route) >= 1
        /\ walk.route[1] = walk.start_edge
        /\ walk.route[Len(walk.route)] = walk.goal_edge
        /\ \A i \in 2..Len(walk.route) : Outgoing(walk.route[i - 1], walk.route[i])

\* A walk of two iterations to the goal: a route of three edges through an
\* edge that is neither the start nor the goal.
C37_Witness ==
    /\ ReachedGoal
    /\ walk.iterations = 2
    /\ Len(walk.route) = 3
    /\ walk.route[2] \notin {walk.start_edge, walk.goal_edge}
    /\ ~Outgoing(walk.start_edge, walk.goal_edge)

(***************************************************************************)
(* The order of the candidates.                                            *)
(***************************************************************************)
\* The candidates enumerated the other way round.
Reversed(l) == [i \in 1..Len(l) |-> l[Len(l) + 1 - i]]

\* C38: for one router context and one set of distance and speed answers,
\* find_next_edge computes the same cost for every candidate and selects
\* the same edge, up to ties in f, whatever the order in which the outgoing
\* edges are enumerated.  (Violated: the g of a candidate leaves its
\* distance in the context, which moves the weights of the candidates
\* evaluated after it.)
C38_OrderIndependent ==
    [][Searched =>
        LET in == search'.in
            other == find_next_edge(router,
                         [in EXCEPT !.edges_leaving = Reversed(@)])
        IN  /\ other.costs = search'.costs
            /\ \/ other.next_edge = search'.next_edge
               \/ /\ other.next_edge # NoEdge /\ search'.next_edge # NoEdge
                  /\ search'.costs[other.next_edge] =
                        search'.costs[search'.next_edge]]_vars

====
